---- MODULE Spec2Model ----
(***************************************************************************)
(* Mock EDA/PCB connector (MockEDAConnector, shared/connectors/eda/client) *)
(* as a state machine: the in-memory store of projects, boards, DRC and    *)
(* routing results, and one action per connector operation.                *)
(*                                                                         *)
(* Conventions                                                             *)
(*   - an optional / nullable value is a sequence of length 0 or 1:        *)
(*     None for undefined or null, Some(v) for a value;                    *)
(*   - millimetre quantities with decimals (trace width and length, via    *)
(*     drill and pad, layer thickness) and rule values are integers in     *)
(*     thousandths (0.15 mm is 150); coordinates, rotation, impedance      *)
(*     targets and maxLength are the source's integers;                    *)
(*   - a timestamp is the number of milliseconds since the connector was   *)
(*     constructed (the ISO string of the source is a function of it);     *)
(*   - a rate that the source computes by a floating-point division is the *)
(*     record [num, den] of that division, den = 0 included.               *)
(***************************************************************************)
EXTENDS Integers, Sequences, FiniteSets, TLC

None == <<>>
Some(v) == <<v>>
IsSome(o) == o /= <<>>
Get(o) == o[1]

(***************************************************************************)
(* Bounds of the model.                                                    *)
(***************************************************************************)
MaxCalls == 2
MaxComps == 2
MaxNets == 2
MaxProjects == 4
MaxBoards == 2
MaxTicks == 1
MaxTraces == 9

(***************************************************************************)
(* Result envelope and error codes (shared/connectors/types).              *)
(***************************************************************************)
Success(data) == [success |-> TRUE, data |-> data]
Failure(code, message) ==
  [success |-> FALSE, error |-> [code |-> code, message |-> message]]

NotInitialized == Failure("NOT_INITIALIZED", "Connector not initialized")
BoardNotFound(boardId) == Failure("NOT_FOUND", "Board " \o boardId \o " not found")
ProjectNotFound(projectId) ==
  Failure("NOT_FOUND", "Project " \o projectId \o " not found")
ComponentNotFound(componentId) ==
  Failure("NOT_FOUND", "Component " \o componentId \o " not found")
NetNotFound(netId) == Failure("NOT_FOUND", "Net " \o netId \o " not found")

(***************************************************************************)
(* String helpers: String(n).padStart(3, "0"), Array.prototype helpers.    *)
(***************************************************************************)
Digit(n) == <<"0", "1", "2", "3", "4", "5", "6", "7", "8", "9">>[n + 1]

RECURSIVE NumToString(_)
NumToString(n) == IF n < 10 THEN Digit(n) ELSE NumToString(n \div 10) \o Digit(n % 10)

RECURSIVE PadStart(_, _, _)
PadStart(s, width, fill) ==
  IF Len(s) >= width THEN s ELSE PadStart(fill \o s, width, fill)

ProjectId(n) == "PROJ" \o PadStart(NumToString(n), 3, "0")
BoardId(n) == "BOARD" \o PadStart(NumToString(n), 3, "0")
ComponentId(n) == "COMP" \o PadStart(NumToString(n), 3, "0")

Range(s) == {s[i] : i \in DOMAIN s}

\* findIndex((e) => e.id === id), 1-based; 0 when no element has the id
FindIndex(s, id) ==
  IF \E i \in DOMAIN s : s[i].id = id
    THEN CHOOSE i \in DOMAIN s : s[i].id = id /\ \A j \in 1..(i - 1) : s[j].id /= id
    ELSE 0

\* Array.prototype.splice(index, 1)
RemoveAt(s, i) == SubSeq(s, 1, i - 1) \o SubSeq(s, i + 1, Len(s))

\* Array.prototype.slice(offset, offset + limit)
\* a relative index of slice: negative counts from the end, clamped to 0..len
SliceIndex(k, len) ==
  IF k < 0 THEN (IF len + k < 0 THEN 0 ELSE len + k)
  ELSE IF k > len THEN len ELSE k

Slice(s, offset, limit) ==
  SubSeq(s, SliceIndex(offset, Len(s)) + 1, SliceIndex(offset + limit, Len(s)))

(***************************************************************************)
(* Seeded mock data (seedMockData).                                        *)
(***************************************************************************)
WeekAgo == 0 - 7 * 24 * 60 * 60 * 1000
DayAgo == 0 - 24 * 60 * 60 * 1000

SeedLayers ==
  <<
    [id |-> "L1", name |-> "Top", type |-> "signal", thickness |-> 35, material |-> "Copper", copperWeight |-> 1, order |-> 1],
    [id |-> "L2", name |-> "Ground", type |-> "ground", thickness |-> 35, material |-> "Copper", copperWeight |-> 1, order |-> 2],
    [id |-> "L3", name |-> "Power", type |-> "power", thickness |-> 35, material |-> "Copper", copperWeight |-> 1, order |-> 3],
    [id |-> "L4", name |-> "Bottom", type |-> "signal", thickness |-> 35, material |-> "Copper", copperWeight |-> 1, order |-> 4] >>

SeedDesignRules ==
  <<
    [id |-> "DRC001", name |-> "Minimum Trace Width", type |-> "width", value |-> 150, unit |-> "mm",
     severity |-> "error", enabled |-> TRUE, netClasses |-> <<>>],
    [id |-> "DRC002", name |-> "Minimum Clearance", type |-> "clearance", value |-> 150, unit |-> "mm",
     severity |-> "error", enabled |-> TRUE, netClasses |-> <<>>],
    [id |-> "DRC003", name |-> "Minimum Drill Size", type |-> "drill", value |-> 300, unit |-> "mm",
     severity |-> "error", enabled |-> TRUE, netClasses |-> <<>>],
    [id |-> "DRC004", name |-> "Annular Ring", type |-> "annular_ring", value |-> 150, unit |-> "mm",
     severity |-> "error", enabled |-> TRUE, netClasses |-> <<>>],
    [id |-> "DRC005", name |-> "Silkscreen Clearance", type |-> "silkscreen", value |-> 100, unit |-> "mm",
     severity |-> "warning", enabled |-> TRUE, netClasses |-> <<>>],
    [id |-> "DRC006", name |-> "Solder Mask Expansion", type |-> "solder_mask", value |-> 50, unit |-> "mm",
     severity |-> "warning", enabled |-> TRUE, netClasses |-> <<>>],
    [id |-> "DRC007", name |-> "Impedance Control", type |-> "impedance", value |-> 10000, unit |-> "percent",
     severity |-> "warning", enabled |-> TRUE, netClasses |-> <<<<"differential", "high_speed">>>>],
    [id |-> "DRC008", name |-> "Length Matching", type |-> "length_match", value |-> 5000, unit |-> "percent",
     severity |-> "warning", enabled |-> TRUE, netClasses |-> <<<<"differential">>>>] >>

SeedComponents ==
  <<
    [id |-> "COMP001", name |-> "STM32F407VGT6", designator |-> "U1", package |-> "LQFP",
     value |-> <<>>, position |-> [x |-> 50, y |-> 40], rotation |-> 0, layer |-> "top",
     locked |-> TRUE, partNumber |-> <<"STM32F407VGT6">>,
     pins |-> <<
        [id |-> "P1", name |-> "VDD", number |-> "1", netId |-> <<"NET_VCC">>, position |-> [x |-> 45, y |-> 35], type |-> "power"],
        [id |-> "P2", name |-> "VSS", number |-> "2", netId |-> <<"NET_GND">>, position |-> [x |-> 45, y |-> 37], type |-> "ground"],
        [id |-> "P3", name |-> "PA0", number |-> "3", netId |-> <<"NET_SIG1">>, position |-> [x |-> 45, y |-> 39], type |-> "bidirectional"],
        [id |-> "P4", name |-> "PA1", number |-> "4", netId |-> <<"NET_SIG2">>, position |-> [x |-> 45, y |-> 41], type |-> "bidirectional"],
        [id |-> "P5", name |-> "USB_DP", number |-> "5", netId |-> <<"NET_USB_DP">>, position |-> [x |-> 55, y |-> 35], type |-> "bidirectional"],
        [id |-> "P6", name |-> "USB_DM", number |-> "6", netId |-> <<"NET_USB_DM">>, position |-> [x |-> 55, y |-> 37], type |-> "bidirectional"],
        [id |-> "P7", name |-> "BOOT0", number |-> "7", netId |-> <<"NET_BOOT">>, position |-> [x |-> 55, y |-> 39], type |-> "input"],
        [id |-> "P8", name |-> "NRST", number |-> "8", netId |-> <<"NET_RST">>, position |-> [x |-> 55, y |-> 41], type |-> "input"] >>],
    [id |-> "COMP002", name |-> "USB-C Connector", designator |-> "J1", package |-> "SMD0805",
     value |-> <<>>, position |-> [x |-> 10, y |-> 40], rotation |-> 90, layer |-> "top",
     locked |-> TRUE, partNumber |-> <<"USB4110-GF-A">>,
     pins |-> <<
        [id |-> "P1", name |-> "VBUS", number |-> "A4", netId |-> <<"NET_VBUS">>, position |-> [x |-> 10, y |-> 38], type |-> "power"],
        [id |-> "P2", name |-> "GND", number |-> "A1", netId |-> <<"NET_GND">>, position |-> [x |-> 10, y |-> 40], type |-> "ground"],
        [id |-> "P3", name |-> "D+", number |-> "A6", netId |-> <<"NET_USB_DP">>, position |-> [x |-> 10, y |-> 42], type |-> "bidirectional"],
        [id |-> "P4", name |-> "D-", number |-> "A7", netId |-> <<"NET_USB_DM">>, position |-> [x |-> 10, y |-> 44], type |-> "bidirectional"] >>],
    [id |-> "COMP003", name |-> "LDO Regulator", designator |-> "U2", package |-> "SOIC",
     value |-> <<"3.3V">>, position |-> [x |-> 25, y |-> 20], rotation |-> 0, layer |-> "top",
     locked |-> FALSE, partNumber |-> <<"AMS1117-3.3">>,
     pins |-> <<
        [id |-> "P1", name |-> "VIN", number |-> "1", netId |-> <<"NET_VBUS">>, position |-> [x |-> 22, y |-> 20], type |-> "power"],
        [id |-> "P2", name |-> "GND", number |-> "2", netId |-> <<"NET_GND">>, position |-> [x |-> 25, y |-> 20], type |-> "ground"],
        [id |-> "P3", name |-> "VOUT", number |-> "3", netId |-> <<"NET_VCC">>, position |-> [x |-> 28, y |-> 20], type |-> "power"] >>],
    [id |-> "COMP004", name |-> "Bypass Capacitor", designator |-> "C1", package |-> "SMD0402",
     value |-> <<"100nF">>, position |-> [x |-> 48, y |-> 35], rotation |-> 0, layer |-> "top",
     locked |-> FALSE, partNumber |-> <<"GRM155R71C104KA88D">>,
     pins |-> <<
        [id |-> "P1", name |-> "1", number |-> "1", netId |-> <<"NET_VCC">>, position |-> [x |-> 47, y |-> 35], type |-> "bidirectional"],
        [id |-> "P2", name |-> "2", number |-> "2", netId |-> <<"NET_GND">>, position |-> [x |-> 49, y |-> 35], type |-> "bidirectional"] >>],
    [id |-> "COMP005", name |-> "Bulk Capacitor", designator |-> "C2", package |-> "SMD0805",
     value |-> <<"10uF">>, position |-> [x |-> 22, y |-> 18], rotation |-> 0, layer |-> "top",
     locked |-> FALSE, partNumber |-> <<"GRM21BR61C106KE15L">>,
     pins |-> <<
        [id |-> "P1", name |-> "1", number |-> "1", netId |-> <<"NET_VCC">>, position |-> [x |-> 21, y |-> 18], type |-> "bidirectional"],
        [id |-> "P2", name |-> "2", number |-> "2", netId |-> <<"NET_GND">>, position |-> [x |-> 23, y |-> 18], type |-> "bidirectional"] >>],
    [id |-> "COMP006", name |-> "Crystal Oscillator", designator |-> "Y1", package |-> "SMD0603",
     value |-> <<"8MHz">>, position |-> [x |-> 60, y |-> 45], rotation |-> 45, layer |-> "top",
     locked |-> FALSE, partNumber |-> <<"ABM8-8.000MHZ">>,
     pins |-> <<
        [id |-> "P1", name |-> "IN", number |-> "1", netId |-> <<"NET_XTAL_IN">>, position |-> [x |-> 58, y |-> 45], type |-> "input"],
        [id |-> "P2", name |-> "OUT", number |-> "2", netId |-> <<"NET_XTAL_OUT">>, position |-> [x |-> 62, y |-> 45], type |-> "output"] >>],
    [id |-> "COMP007", name |-> "Pull-up Resistor", designator |-> "R1", package |-> "SMD0402",
     value |-> <<"10K">>, position |-> [x |-> 58, y |-> 38], rotation |-> 90, layer |-> "top",
     locked |-> FALSE, partNumber |-> <<"RC0402FR-0710KL">>,
     pins |-> <<
        [id |-> "P1", name |-> "1", number |-> "1", netId |-> <<"NET_VCC">>, position |-> [x |-> 58, y |-> 37], type |-> "bidirectional"],
        [id |-> "P2", name |-> "2", number |-> "2", netId |-> <<"NET_RST">>, position |-> [x |-> 58, y |-> 39], type |-> "bidirectional"] >>],
    [id |-> "COMP008", name |-> "Boot Resistor", designator |-> "R2", package |-> "SMD0402",
     value |-> <<"10K">>, position |-> [x |-> 58, y |-> 42], rotation |-> 90, layer |-> "top",
     locked |-> FALSE, partNumber |-> <<"RC0402FR-0710KL">>,
     pins |-> <<
        [id |-> "P1", name |-> "1", number |-> "1", netId |-> <<"NET_GND">>, position |-> [x |-> 58, y |-> 41], type |-> "bidirectional"],
        [id |-> "P2", name |-> "2", number |-> "2", netId |-> <<"NET_BOOT">>, position |-> [x |-> 58, y |-> 43], type |-> "bidirectional"] >>] >>

SeedNets ==
  <<
    [id |-> "NET_VCC", name |-> "VCC_3V3",
     pinRefs |-> <<"COMP001:P1", "COMP003:P3", "COMP004:P1", "COMP005:P1", "COMP007:P1">>,
     priority |-> "high", impedanceTarget |-> <<>>, maxLength |-> <<>>,
     diffPair |-> <<>>, netClass |-> "power"],
    [id |-> "NET_GND", name |-> "GND",
     pinRefs |-> <<"COMP001:P2", "COMP002:P2", "COMP003:P2", "COMP004:P2", "COMP005:P2", "COMP008:P1">>,
     priority |-> "high", impedanceTarget |-> <<>>, maxLength |-> <<>>,
     diffPair |-> <<>>, netClass |-> "power"],
    [id |-> "NET_VBUS", name |-> "USB_VBUS",
     pinRefs |-> <<"COMP002:P1", "COMP003:P1">>,
     priority |-> "high", impedanceTarget |-> <<>>, maxLength |-> <<>>,
     diffPair |-> <<>>, netClass |-> "power"],
    [id |-> "NET_USB_DP", name |-> "USB_D+",
     pinRefs |-> <<"COMP001:P5", "COMP002:P3">>,
     priority |-> "critical", impedanceTarget |-> <<90>>, maxLength |-> <<50>>,
     diffPair |-> <<"NET_USB_DM">>, netClass |-> "differential"],
    [id |-> "NET_USB_DM", name |-> "USB_D-",
     pinRefs |-> <<"COMP001:P6", "COMP002:P4">>,
     priority |-> "critical", impedanceTarget |-> <<90>>, maxLength |-> <<50>>,
     diffPair |-> <<"NET_USB_DP">>, netClass |-> "differential"],
    [id |-> "NET_SIG1", name |-> "GPIO_A0",
     pinRefs |-> <<"COMP001:P3">>,
     priority |-> "normal", impedanceTarget |-> <<>>, maxLength |-> <<>>,
     diffPair |-> <<>>, netClass |-> "signal"],
    [id |-> "NET_SIG2", name |-> "GPIO_A1",
     pinRefs |-> <<"COMP001:P4">>,
     priority |-> "normal", impedanceTarget |-> <<>>, maxLength |-> <<>>,
     diffPair |-> <<>>, netClass |-> "signal"],
    [id |-> "NET_RST", name |-> "RESET",
     pinRefs |-> <<"COMP001:P8", "COMP007:P2">>,
     priority |-> "high", impedanceTarget |-> <<>>, maxLength |-> <<>>,
     diffPair |-> <<>>, netClass |-> "signal"],
    [id |-> "NET_BOOT", name |-> "BOOT0",
     pinRefs |-> <<"COMP001:P7", "COMP008:P2">>,
     priority |-> "normal", impedanceTarget |-> <<>>, maxLength |-> <<>>,
     diffPair |-> <<>>, netClass |-> "signal"],
    [id |-> "NET_XTAL_IN", name |-> "XTAL_IN",
     pinRefs |-> <<"COMP006:P1">>,
     priority |-> "high", impedanceTarget |-> <<>>, maxLength |-> <<20>>,
     diffPair |-> <<>>, netClass |-> "high_speed"],
    [id |-> "NET_XTAL_OUT", name |-> "XTAL_OUT",
     pinRefs |-> <<"COMP006:P2">>,
     priority |-> "high", impedanceTarget |-> <<>>, maxLength |-> <<20>>,
     diffPair |-> <<>>, netClass |-> "high_speed"] >>

SeedTraces ==
  <<
    [id |-> "TR001", netId |-> "NET_USB_DP", layer |-> "L1",
     points |-> <<[x |-> 10, y |-> 42], [x |-> 20, y |-> 42], [x |-> 30, y |-> 38], [x |-> 55, y |-> 35]>>,
     width |-> 200, status |-> "routed", length |-> 52500],
    [id |-> "TR002", netId |-> "NET_USB_DM", layer |-> "L1",
     points |-> <<[x |-> 10, y |-> 44], [x |-> 20, y |-> 44], [x |-> 30, y |-> 40], [x |-> 55, y |-> 37]>>,
     width |-> 200, status |-> "routed", length |-> 53200],
    [id |-> "TR003", netId |-> "NET_VCC", layer |-> "L3",
     points |-> <<[x |-> 28, y |-> 20], [x |-> 40, y |-> 20], [x |-> 45, y |-> 35]>>,
     width |-> 300, status |-> "routed", length |-> 32000],
    [id |-> "TR004", netId |-> "NET_RST", layer |-> "L1",
     points |-> <<[x |-> 55, y |-> 41], [x |-> 58, y |-> 39]>>,
     width |-> 150, status |-> "routed", length |-> 3600],
    [id |-> "TR005", netId |-> "NET_BOOT", layer |-> "L1",
     points |-> <<[x |-> 55, y |-> 39], [x |-> 58, y |-> 43]>>,
     width |-> 150, status |-> "routed", length |-> 5000] >>

SeedVias ==
  <<
    [id |-> "VIA001", netId |-> "NET_VCC", position |-> [x |-> 45, y |-> 35], drillSize |-> 300, padSize |-> 600,
     startLayer |-> "L1", endLayer |-> "L3", type |-> "through"],
    [id |-> "VIA002", netId |-> "NET_GND", position |-> [x |-> 30, y |-> 30], drillSize |-> 300, padSize |-> 600,
     startLayer |-> "L1", endLayer |-> "L2", type |-> "through"] >>

SeedBoard ==
  [id |-> "BOARD001", projectId |-> "PROJ001", name |-> "STM32 Dev Board",
   width |-> 80, height |-> 60,
   layers |-> SeedLayers, components |-> SeedComponents, nets |-> SeedNets,
   traces |-> SeedTraces, vias |-> SeedVias, designRules |-> SeedDesignRules,
   createdAt |-> WeekAgo, updatedAt |-> 0]

SeedProjects ==
  << [id |-> "PROJ001", name |-> "STM32 Development Board",
      description |-> Some("A compact development board featuring STM32F407 microcontroller with USB-C connectivity"),
      createdAt |-> WeekAgo, updatedAt |-> 0, version |-> "1.2.0",
      status |-> "in_review",
      boards |-> << [id |-> "BOARD001", name |-> "STM32 Dev Board"] >>],
     [id |-> "PROJ002", name |-> "IoT Sensor Module",
      description |-> Some("Low-power wireless sensor module for environmental monitoring"),
      createdAt |-> DayAgo, updatedAt |-> DayAgo, version |-> "0.1.0",
      status |-> "draft", boards |-> <<>>],
     [id |-> "PROJ003", name |-> "Motor Controller",
      description |-> Some("High-current BLDC motor controller with FOC support"),
      createdAt |-> WeekAgo, updatedAt |-> WeekAgo, version |-> "2.0.0",
      status |-> "approved", boards |-> <<>>] >>

(***************************************************************************)
(* State of a MockEDAConnector instance, the wall clock, and the last call *)
(* made on the connector with the value it returned.                       *)
(***************************************************************************)
VARIABLES
  isInitialized,   \* _isInitialized
  projects,        \* PCBProject[]
  boards,          \* Map<string, PCBBoard>, as a function on the stored ids
  drcResults,      \* Map<string, DRCResult>
  routingResults,  \* Map<string, RoutingResult>
  now,             \* Date.now(), ms since construction
  calls,           \* number of data operations invoked so far
  last,            \* the last call: [op, args, ret]
  svc,             \* the PCBDesignService call in progress or just returned
  live             \* the LiveEDAConnector: [config, isInitialized, last]

store == <<projects, boards, drcResults, routingResults>>
vars ==
  <<isInitialized, projects, boards, drcResults, routingResults, now, calls, last, svc,
    live>>

Call(op, args, ret) == [op |-> op, args |-> args, ret |-> ret]

Code(call) == IF call.ret.success THEN "OK" ELSE call.ret.error.code

EmptyMap == [k \in {} |-> None]

Put(map, key, value) ==
  [k \in DOMAIN map \cup {key} |-> IF k = key THEN value ELSE map[k]]

Delete(map, key) == [k \in DOMAIN map \ {key} |-> map[k]]

\* a PCBDesignService method between two awaits: the board id it was called
\* with, the await it is suspended at and the connector results it holds
Running(method, boardId, pc, acc) ==
  [method |-> method, boardId |-> boardId, pc |-> pc, acc |-> acc, ret |-> None]

\* a PCBDesignService method that has returned ret
Done(method, boardId, acc, ret) ==
  [method |-> method, boardId |-> boardId, pc |-> "done", acc |-> acc, ret |-> Some(ret)]

\* no method of the service has been called
Idle == [method |-> "none", boardId |-> "", pc |-> "idle", acc |-> <<>>, ret |-> None]

\* no live connector has been made by createEDAConnector
NoLive == [config |-> None, isInitialized |-> FALSE, last |-> None]

Init ==
  /\ isInitialized = FALSE
  /\ projects = SeedProjects
  /\ boards = Put(EmptyMap, SeedBoard.id, SeedBoard)
  /\ drcResults = EmptyMap
  /\ routingResults = EmptyMap
  /\ now = 0
  /\ calls = 0
  /\ last = Call("constructor", <<>>, Success(None))
  /\ svc = Idle
  /\ live = NoLive

(***************************************************************************)
(* Inputs.                                                                 *)
(***************************************************************************)
MissingBoard == "BOARD999"
BoardIdInputs == {BoardId(1), BoardId(2), MissingBoard}
\* the seeded board and the first created one, missing until it is created
BoardIds == {BoardId(1), BoardId(2)}
ComponentIdInputs == {ComponentId(n) : n \in 1..9}

PlaceInputs ==
  { [name |-> "Resistor", designator |-> "R99", package |-> "SMD0402",
     value |-> Some("1K"), position |-> [x |-> 0, y |-> 0],
     rotation |-> None, layer |-> None, partNumber |-> None],
    [name |-> "Header", designator |-> "J2", package |-> "DIP",
     value |-> None, position |-> [x |-> 70, y |-> 10],
     rotation |-> Some(90), layer |-> Some("bottom"), partNumber |-> Some("HDR-2x5")] }

MoveInputs ==
  { [position |-> Some([x |-> 5, y |-> 5]), rotation |-> None, layer |-> None],
    [position |-> None, rotation |-> Some(180), layer |-> Some("bottom")] }

\* input.x || fallback for an optional input: undefined, 0 and "" are falsy
NumOr(opt, fallback) == IF IsSome(opt) /\ Get(opt) /= 0 THEN Get(opt) ELSE fallback
StrOr(opt, fallback) == IF IsSome(opt) /\ Get(opt) /= "" THEN Get(opt) ELSE fallback
\* input.x || null
StrOrNull(opt) == IF IsSome(opt) /\ Get(opt) /= "" THEN opt ELSE None
NumOrNull(opt) == IF IsSome(opt) /\ Get(opt) /= 0 THEN opt ELSE None

(***************************************************************************)
(* Lifecycle.                                                              *)
(***************************************************************************)
initialize ==
  /\ isInitialized' = TRUE
  /\ last' = Call("initialize", <<>>, Success(None))
  /\ UNCHANGED <<store, now>>

\* a dispose that also drops the results of the runs
disposeClearingResults ==
  /\ isInitialized' = FALSE
  /\ last' = Call("dispose", <<>>, Success(None))
  /\ drcResults' = EmptyMap
  /\ routingResults' = EmptyMap
  /\ UNCHANGED <<projects, boards, now>>

dispose ==
  /\ isInitialized' = FALSE
  /\ last' = Call("dispose", <<>>, Success(None))
  /\ UNCHANGED <<store, now>>

healthCheck ==
  /\ last' = Call("healthCheck", <<>>,
                  Success([healthy |-> TRUE, version |-> "mock-v1",
                           details |-> [mode |-> "mock",
                                        projectCount |-> Len(projects),
                                        boardCount |-> Cardinality(DOMAIN boards)]]))
  /\ UNCHANGED <<isInitialized, store, now>>

\* the wall clock advances between calls
Tick ==
  /\ now < MaxTicks * 1000
  /\ now' = now + 1000
  /\ UNCHANGED <<isInitialized, store, last>>

(***************************************************************************)
(* Component operations.                                                   *)
(***************************************************************************)
FindComponent(board, componentId) ==
  LET i == FindIndex(board.components, componentId)
  IN  IF i = 0 THEN None ELSE Some(board.components[i])
GetComponentRet(boardId, componentId) ==
  IF ~isInitialized THEN NotInitialized
  ELSE IF boardId \notin DOMAIN boards THEN BoardNotFound(boardId)
  ELSE LET component == FindComponent(boards[boardId], componentId)
       IN  IF component = None THEN ComponentNotFound(componentId)
           ELSE Success(Get(component))

getComponent(boardId, componentId) ==
  /\ last' = Call("getComponent", <<boardId, componentId>>,
                  GetComponentRet(boardId, componentId))
  /\ UNCHANGED <<isInitialized, store, now>>

NewComponent(board, input) ==
  [id |-> ComponentId(Len(board.components) + 1),
   name |-> input.name,
   designator |-> input.designator,
   package |-> input.package,
   value |-> StrOrNull(input.value),
   position |-> input.position,
   rotation |-> NumOr(input.rotation, 0),
   layer |-> StrOr(input.layer, "top"),
   pins |-> <<>>,
   locked |-> FALSE,
   partNumber |-> StrOrNull(input.partNumber)]

\* the board after board.components.push(component) and the new updatedAt
WithComponent(board, component) ==
  [board EXCEPT !.components = Append(@, component), !.updatedAt = now]

placeComponent(boardId, input) ==
  /\ boardId \in DOMAIN boards => Len(boards[boardId].components) < MaxComps
  /\ IF ~isInitialized THEN
       /\ last' = Call("placeComponent", <<boardId, input>>, NotInitialized)
       /\ UNCHANGED boards
     ELSE IF boardId \notin DOMAIN boards THEN
       /\ last' = Call("placeComponent", <<boardId, input>>, BoardNotFound(boardId))
       /\ UNCHANGED boards
     ELSE
       LET board == boards[boardId]
           component == NewComponent(board, input)
       IN  /\ boards' = [boards EXCEPT ![boardId] = WithComponent(board, component)]
           /\ last' = Call("placeComponent", <<boardId, input>>, Success(component))
  /\ UNCHANGED <<isInitialized, projects, drcResults, routingResults, now>>

\* if (component.locked): the guard of moveComponent, skipped
IsLockedSkipped(component) == FALSE

\* if (component.locked): the guard of moveComponent
IsLocked(component) == component.locked

\* the partial merge of moveComponent
MoveMerge(component, input) ==
  [component EXCEPT
     !.position = IF IsSome(input.position) THEN Get(input.position) ELSE @,
     !.rotation = IF IsSome(input.rotation) THEN Get(input.rotation) ELSE @,
     !.layer = IF IsSome(input.layer) THEN Get(input.layer) ELSE @]

moveComponent(boardId, componentId, input) ==
  /\ IF ~isInitialized THEN
       /\ last' = Call("moveComponent", <<boardId, componentId, input>>, NotInitialized)
       /\ UNCHANGED boards
     ELSE IF boardId \notin DOMAIN boards THEN
       /\ last' = Call("moveComponent", <<boardId, componentId, input>>,
                       BoardNotFound(boardId))
       /\ UNCHANGED boards
     ELSE
       LET board == boards[boardId]
           index == FindIndex(board.components, componentId)
       IN  IF index = 0 THEN
             /\ last' = Call("moveComponent", <<boardId, componentId, input>>,
                             ComponentNotFound(componentId))
             /\ UNCHANGED boards
           ELSE IF IsLocked(board.components[index]) THEN
             /\ last' = Call("moveComponent", <<boardId, componentId, input>>,
                             Failure("VALIDATION_ERROR",
                                     "Component " \o componentId \o " is locked"))
             /\ UNCHANGED boards
           ELSE
             LET moved == MoveMerge(board.components[index], input)
             IN  /\ boards' = [boards EXCEPT ![boardId] =
                                 [board EXCEPT !.components[index] = moved,
                                               !.updatedAt = now]]
                 /\ last' = Call("moveComponent", <<boardId, componentId, input>>,
                                 Success(moved))
  /\ UNCHANGED <<isInitialized, projects, drcResults, routingResults, now>>

deleteComponent(boardId, componentId) ==
  /\ IF ~isInitialized THEN
       /\ last' = Call("deleteComponent", <<boardId, componentId>>, NotInitialized)
       /\ UNCHANGED boards
     ELSE IF boardId \notin DOMAIN boards THEN
       /\ last' = Call("deleteComponent", <<boardId, componentId>>,
                       BoardNotFound(boardId))
       /\ UNCHANGED boards
     ELSE
       LET board == boards[boardId]
           index == FindIndex(board.components, componentId)
       IN  IF index = 0 THEN
             /\ last' = Call("deleteComponent", <<boardId, componentId>>,
                             ComponentNotFound(componentId))
             /\ UNCHANGED boards
           ELSE
             /\ boards' = [boards EXCEPT ![boardId] =
                             [board EXCEPT !.components = RemoveAt(@, index),
                                           !.updatedAt = now]]
             /\ last' = Call("deleteComponent", <<boardId, componentId>>,
                             Success(None))
  /\ UNCHANGED <<isInitialized, projects, drcResults, routingResults, now>>

\* listComponents: options?.layer filter, then slice(offset, offset + limit)
ListComponentsRet(boardId, options) ==
  IF ~isInitialized THEN NotInitialized
  ELSE IF boardId \notin DOMAIN boards THEN BoardNotFound(boardId)
  ELSE LET all == boards[boardId].components
           filtered == IF IsSome(options.layer) /\ Get(options.layer) /= ""
                         THEN SelectSeq(all, LAMBDA c : c.layer = Get(options.layer))
                         ELSE all
           offset == IF IsSome(options.offset) THEN Get(options.offset) ELSE 0
           limit == IF IsSome(options.limit) THEN Get(options.limit) ELSE 100
       IN  Success([components |-> Slice(filtered, offset, limit),
                    total |-> Len(filtered)])

listComponents(boardId, options) ==
  /\ last' = Call("listComponents", <<boardId, options>>,
                  ListComponentsRet(boardId, options))
  /\ UNCHANGED <<isInitialized, store, now>>

(***************************************************************************)
(* Project operations.                                                     *)
(***************************************************************************)
ListProjectsRet(options) ==
  IF ~isInitialized THEN NotInitialized
  ELSE LET filtered == IF IsSome(options.status) /\ Get(options.status) /= ""
                         THEN SelectSeq(projects, LAMBDA p : p.status = Get(options.status))
                         ELSE projects
           offset == IF IsSome(options.offset) THEN Get(options.offset) ELSE 0
           limit == IF IsSome(options.limit) THEN Get(options.limit) ELSE 25
       IN  Success([projects |-> Slice(filtered, offset, limit),
                    total |-> Len(filtered)])

listProjects(options) ==
  /\ last' = Call("listProjects", <<options>>, ListProjectsRet(options))
  /\ UNCHANGED <<isInitialized, store, now>>

\* this.projects.find((p) => p.id === projectId), as an index; 0 when absent
ProjectIndex(projectId) == FindIndex(projects, projectId)
GetProjectRet(projectId) ==
  IF ~isInitialized THEN NotInitialized
  ELSE IF ProjectIndex(projectId) = 0 THEN ProjectNotFound(projectId)
  ELSE Success(projects[ProjectIndex(projectId)])

getProject(projectId) ==
  /\ last' = Call("getProject", <<projectId>>, GetProjectRet(projectId))
  /\ UNCHANGED <<isInitialized, store, now>>

NewProject(input) ==
  [id |-> ProjectId(Len(projects) + 1),
   name |-> input.name,
   description |-> StrOrNull(input.description),
   createdAt |-> now, updatedAt |-> now,
   version |-> "0.1.0", status |-> "draft", boards |-> <<>>]

createProject(input) ==
  /\ Len(projects) < MaxProjects
  /\ IF ~isInitialized THEN
       /\ last' = Call("createProject", <<input>>, NotInitialized)
       /\ UNCHANGED projects
     ELSE
       /\ projects' = Append(projects, NewProject(input))
       /\ last' = Call("createProject", <<input>>, Success(NewProject(input)))
  /\ UNCHANGED <<isInitialized, boards, drcResults, routingResults, now>>

updateProject(projectId, input) ==
  /\ IF ~isInitialized THEN
       /\ last' = Call("updateProject", <<projectId, input>>, NotInitialized)
       /\ UNCHANGED projects
     ELSE IF ProjectIndex(projectId) = 0 THEN
       /\ last' = Call("updateProject", <<projectId, input>>, ProjectNotFound(projectId))
       /\ UNCHANGED projects
     ELSE
       LET index == ProjectIndex(projectId)
           updated ==
             [projects[index] EXCEPT
                !.name = IF IsSome(input.name) THEN Get(input.name) ELSE @,
                !.description = IF IsSome(input.description) THEN input.description ELSE @,
                !.status = IF IsSome(input.status) THEN Get(input.status) ELSE @,
                !.updatedAt = now]
       IN  /\ projects' = [projects EXCEPT ![index] = updated]
           /\ last' = Call("updateProject", <<projectId, input>>, Success(updated))
  /\ UNCHANGED <<isInitialized, boards, drcResults, routingResults, now>>

(***************************************************************************)
(* Board operations.                                                       *)
(***************************************************************************)
GetBoardRet(boardId) ==
  IF ~isInitialized THEN NotInitialized
  ELSE IF boardId \notin DOMAIN boards THEN BoardNotFound(boardId)
  ELSE Success(boards[boardId])

getBoard(boardId) ==
  /\ last' = Call("getBoard", <<boardId>>, GetBoardRet(boardId))
  /\ UNCHANGED <<isInitialized, store, now>>

\* a default stack without planes
DefaultLayerAllSignal(i, layerCount) ==
  [id |-> "L" \o NumToString(i),
   name |-> IF i = 1 THEN "Top"
            ELSE IF i = layerCount THEN "Bottom"
            ELSE "Inner" \o NumToString(i - 1),
   type |-> "signal",
   thickness |-> 35, material |-> "Copper", copperWeight |-> 1, order |-> i]

\* layer i of the default stack for layerCount layers
DefaultLayer(i, layerCount) ==
  [id |-> "L" \o NumToString(i),
   name |-> IF i = 1 THEN "Top"
            ELSE IF i = layerCount THEN "Bottom"
            ELSE "Inner" \o NumToString(i - 1),
   type |-> IF i = layerCount - 1 /\ layerCount >= 4 THEN "power"
            ELSE IF i = 2 /\ layerCount >= 4 THEN "ground"
            ELSE "signal",
   thickness |-> 35, material |-> "Copper", copperWeight |-> 1, order |-> i]

DefaultLayers(layerCount) ==
  [i \in 1..layerCount |-> DefaultLayer(i, layerCount)]

\* the three rules createBoard seeds
BaselineRules ==
  << [id |-> "DRC001", name |-> "Minimum Trace Width", type |-> "width",
      value |-> 150, unit |-> "mm", severity |-> "error", enabled |-> TRUE,
      netClasses |-> None],
     [id |-> "DRC002", name |-> "Minimum Clearance", type |-> "clearance",
      value |-> 150, unit |-> "mm", severity |-> "error", enabled |-> TRUE,
      netClasses |-> None],
     [id |-> "DRC003", name |-> "Minimum Drill Size", type |-> "drill",
      value |-> 300, unit |-> "mm", severity |-> "error", enabled |-> TRUE,
      netClasses |-> None] >>

NewBoard(projectId, input) ==
  [id |-> BoardId(Cardinality(DOMAIN boards) + 1),
   projectId |-> projectId,
   name |-> input.name, width |-> input.width, height |-> input.height,
   layers |-> DefaultLayers(input.layerCount),
   components |-> <<>>, nets |-> <<>>, traces |-> <<>>, vias |-> <<>>,
   designRules |-> BaselineRules,
   createdAt |-> now, updatedAt |-> now]

WithBoardUnlisted(project, board) == [project EXCEPT !.updatedAt = now]

\* the project after project.boards.push({id, name}) and the new updatedAt
WithBoard(project, board) ==
  [project EXCEPT !.boards = Append(@, [id |-> board.id, name |-> board.name]),
                  !.updatedAt = now]

createBoard(projectId, input) ==
  /\ Cardinality(DOMAIN boards) < MaxBoards
  /\ IF ~isInitialized THEN
       /\ last' = Call("createBoard", <<projectId, input>>, NotInitialized)
       /\ UNCHANGED <<projects, boards>>
     ELSE IF ProjectIndex(projectId) = 0 THEN
       /\ last' = Call("createBoard", <<projectId, input>>, ProjectNotFound(projectId))
       /\ UNCHANGED <<projects, boards>>
     ELSE
       LET board == NewBoard(projectId, input)
       IN  /\ boards' = Put(boards, board.id, board)
           /\ projects' = [projects EXCEPT ![ProjectIndex(projectId)] =
                                                 WithBoard(@, board)]
           /\ last' = Call("createBoard", <<projectId, input>>, Success(board))
  /\ UNCHANGED <<isInitialized, drcResults, routingResults, now>>

updateBoard(boardId, input) ==
  /\ IF ~isInitialized THEN
       /\ last' = Call("updateBoard", <<boardId, input>>, NotInitialized)
       /\ UNCHANGED boards
     ELSE IF boardId \notin DOMAIN boards THEN
       /\ last' = Call("updateBoard", <<boardId, input>>, BoardNotFound(boardId))
       /\ UNCHANGED boards
     ELSE
       LET updated ==
             [boards[boardId] EXCEPT
                !.name = IF IsSome(input.name) THEN Get(input.name) ELSE @,
                !.width = IF IsSome(input.width) THEN Get(input.width) ELSE @,
                !.height = IF IsSome(input.height) THEN Get(input.height) ELSE @,
                !.updatedAt = now]
       IN  /\ boards' = [boards EXCEPT ![boardId] = updated]
           /\ last' = Call("updateBoard", <<boardId, input>>, Success(updated))
  /\ UNCHANGED <<isInitialized, projects, drcResults, routingResults, now>>

(***************************************************************************)
(* Net operations.                                                         *)
(***************************************************************************)
LowerCase == "abcdefghijklmnopqrstuvwxyz"
UpperCase == "ABCDEFGHIJKLMNOPQRSTUVWXYZ"

\* toUpperCase of one character
UpperChar(c) ==
  IF \E i \in 1..Len(LowerCase) : SubSeq(LowerCase, i, i) = c
    THEN LET i == CHOOSE i \in 1..Len(LowerCase) : SubSeq(LowerCase, i, i) = c
         IN  SubSeq(UpperCase, i, i)
    ELSE c

RECURSIVE ToUpperCase(_)
ToUpperCase(s) ==
  IF s = "" THEN "" ELSE UpperChar(Head(s)) \o ToUpperCase(Tail(s))

\* \s
IsWhitespace(c) == c \in {" ", "\t", "\n"}

RECURSIVE SkipWhitespace(_)
SkipWhitespace(s) ==
  IF s /= "" /\ IsWhitespace(Head(s)) THEN SkipWhitespace(Tail(s)) ELSE s

\* s.replace(/\s+/g, "_")
RECURSIVE ReplaceWhitespace(_)
ReplaceWhitespace(s) ==
  IF s = "" THEN ""
  ELSE IF IsWhitespace(Head(s)) THEN "_" \o ReplaceWhitespace(SkipWhitespace(s))
  ELSE Head(s) \o ReplaceWhitespace(Tail(s))

NetId(name) == "NET_" \o ReplaceWhitespace(ToUpperCase(name))

ListNetsRet(boardId, options) ==
  IF ~isInitialized THEN NotInitialized
  ELSE IF boardId \notin DOMAIN boards THEN BoardNotFound(boardId)
  ELSE LET all == boards[boardId].nets
           byPriority == IF IsSome(options.priority) /\ Get(options.priority) /= ""
                           THEN SelectSeq(all, LAMBDA n : n.priority = Get(options.priority))
                           ELSE all
           filtered == IF IsSome(options.netClass) /\ Get(options.netClass) /= ""
                         THEN SelectSeq(byPriority,
                                        LAMBDA n : n.netClass = Get(options.netClass))
                         ELSE byPriority
           offset == IF IsSome(options.offset) THEN Get(options.offset) ELSE 0
           limit == IF IsSome(options.limit) THEN Get(options.limit) ELSE 100
       IN  Success([nets |-> Slice(filtered, offset, limit), total |-> Len(filtered)])

listNets(boardId, options) ==
  /\ last' = Call("listNets", <<boardId, options>>, ListNetsRet(boardId, options))
  /\ UNCHANGED <<isInitialized, store, now>>

\* board.nets.find((n) => n.id === netId), as an index; 0 when absent
NetIndex(board, netId) == FindIndex(board.nets, netId)
GetNetRet(boardId, netId) ==
  IF ~isInitialized THEN NotInitialized
  ELSE IF boardId \notin DOMAIN boards THEN BoardNotFound(boardId)
  ELSE IF NetIndex(boards[boardId], netId) = 0 THEN NetNotFound(netId)
  ELSE Success(boards[boardId].nets[NetIndex(boards[boardId], netId)])

getNet(boardId, netId) ==
  /\ last' = Call("getNet", <<boardId, netId>>, GetNetRet(boardId, netId))
  /\ UNCHANGED <<isInitialized, store, now>>

\* nets of a board when it was seeded or created
InitialNetCount(boardId) == IF boardId = SeedBoard.id THEN Len(SeedNets) ELSE 0

NewNet(input) ==
  [id |-> NetId(input.name),
   name |-> input.name,
   pinRefs |-> input.pinRefs,
   priority |-> StrOr(input.priority, "normal"),
   impedanceTarget |-> NumOrNull(input.impedanceTarget),
   maxLength |-> None,
   diffPair |-> None,
   netClass |-> StrOr(input.netClass, "signal")]

createNet(boardId, input) ==
  /\ boardId \in DOMAIN boards =>
       Len(boards[boardId].nets) < InitialNetCount(boardId) + MaxNets
  /\ IF ~isInitialized THEN
       /\ last' = Call("createNet", <<boardId, input>>, NotInitialized)
       /\ UNCHANGED boards
     ELSE IF boardId \notin DOMAIN boards THEN
       /\ last' = Call("createNet", <<boardId, input>>, BoardNotFound(boardId))
       /\ UNCHANGED boards
     ELSE
       /\ boards' = [boards EXCEPT ![boardId] =
                       [@ EXCEPT !.nets = Append(@, NewNet(input)),
                                 !.updatedAt = now]]
       /\ last' = Call("createNet", <<boardId, input>>, Success(NewNet(input)))
  /\ UNCHANGED <<isInitialized, projects, drcResults, routingResults, now>>

updateNet(boardId, netId, input) ==
  /\ IF ~isInitialized THEN
       /\ last' = Call("updateNet", <<boardId, netId, input>>, NotInitialized)
       /\ UNCHANGED boards
     ELSE IF boardId \notin DOMAIN boards THEN
       /\ last' = Call("updateNet", <<boardId, netId, input>>, BoardNotFound(boardId))
       /\ UNCHANGED boards
     ELSE IF NetIndex(boards[boardId], netId) = 0 THEN
       /\ last' = Call("updateNet", <<boardId, netId, input>>, NetNotFound(netId))
       /\ UNCHANGED boards
     ELSE
       LET index == NetIndex(boards[boardId], netId)
           updated ==
             [boards[boardId].nets[index] EXCEPT
                !.name = IF IsSome(input.name) THEN Get(input.name) ELSE @,
                !.priority = IF IsSome(input.priority) THEN Get(input.priority) ELSE @,
                !.impedanceTarget =
                   IF IsSome(input.impedanceTarget) THEN input.impedanceTarget ELSE @,
                !.maxLength = IF IsSome(input.maxLength) THEN input.maxLength ELSE @,
                !.diffPair = IF IsSome(input.diffPair) THEN input.diffPair ELSE @]
       IN  /\ boards' = [boards EXCEPT ![boardId] =
                           [@ EXCEPT !.nets[index] = updated, !.updatedAt = now]]
           /\ last' = Call("updateNet", <<boardId, netId, input>>, Success(updated))
  /\ UNCHANGED <<isInitialized, projects, drcResults, routingResults, now>>

(***************************************************************************)
(* DRC operations.                                                         *)
(***************************************************************************)
MockViolations ==
  << [id |-> "VIOL001", ruleId |-> "DRC002", ruleName |-> "Minimum Clearance",
      severity |-> "warning", location |-> [x |-> 30, y |-> 38], layer |-> Some("L1"),
      description |-> "Clearance violation between USB_D+ and USB_D- traces (0.12mm < 0.15mm required)",
      affectedObjects |-> <<"TR001", "TR002">>,
      suggestedFix |-> Some("Increase spacing between differential pair traces or reduce trace width")],
     [id |-> "VIOL002", ruleId |-> "DRC007", ruleName |-> "Impedance Control",
      severity |-> "warning", location |-> [x |-> 20, y |-> 42], layer |-> Some("L1"),
      description |-> "USB_D+ trace impedance is 85 ohm (target: 90 ohm +-10%)",
      affectedObjects |-> <<"TR001">>,
      suggestedFix |-> Some("Adjust trace width from 0.2mm to 0.22mm for target impedance")],
     [id |-> "VIOL003", ruleId |-> "DRC008", ruleName |-> "Length Matching",
      severity |-> "info", location |-> [x |-> 55, y |-> 36], layer |-> Some("L1"),
      description |-> "USB differential pair length mismatch: 0.7mm (within 5% tolerance)",
      affectedObjects |-> <<"TR001", "TR002">>,
      suggestedFix |-> Some("Consider adding meandering to shorter trace for better matching")] >>

CountSeverity(violations, severity) ==
  Len(SelectSeq(violations, LAMBDA v : v.severity = severity))

NewDRCResult(boardId) ==
  [boardId |-> boardId,
   runAt |-> now,
   passed |-> CountSeverity(MockViolations, "error") = 0,
   violations |-> MockViolations,
   summary |-> [errors |-> CountSeverity(MockViolations, "error"),
                warnings |-> CountSeverity(MockViolations, "warning"),
                info |-> CountSeverity(MockViolations, "info")]]

\* this.drcResults.set(boardId, result), dropped
StoreDRCResultDropped(boardId, result) == drcResults

\* this.drcResults.set(boardId, result)
StoreDRCResult(boardId, result) == Put(drcResults, boardId, result)

runDRC(boardId) ==
  /\ IF ~isInitialized THEN
       /\ last' = Call("runDRC", <<boardId>>, NotInitialized)
       /\ UNCHANGED drcResults
     ELSE IF boardId \notin DOMAIN boards THEN
       /\ last' = Call("runDRC", <<boardId>>, BoardNotFound(boardId))
       /\ UNCHANGED drcResults
     ELSE
       /\ drcResults' = StoreDRCResult(boardId, NewDRCResult(boardId))
       /\ last' = Call("runDRC", <<boardId>>, Success(NewDRCResult(boardId)))
  /\ UNCHANGED <<isInitialized, projects, boards, routingResults, now>>

GetDRCViolationsRet(boardId, options) ==
  IF ~isInitialized THEN NotInitialized
  ELSE IF boardId \notin DOMAIN drcResults THEN
    Failure("NOT_FOUND",
            "No DRC results found for board " \o boardId \o ". Run DRC first.")
  ELSE LET all == drcResults[boardId].violations
       IN  Success(IF IsSome(options.severity) /\ Get(options.severity) /= ""
                     THEN SelectSeq(all, LAMBDA v : v.severity = Get(options.severity))
                     ELSE all)

\* a getDRCViolations that drops the stored results
getDRCViolationsForgetting(boardId, options) ==
  /\ last' = Call("getDRCViolations", <<boardId, options>>,
                  GetDRCViolationsRet(boardId, options))
  /\ drcResults' = EmptyMap
  /\ UNCHANGED <<isInitialized, projects, boards, routingResults, now>>

getDRCViolations(boardId, options) ==
  /\ last' = Call("getDRCViolations", <<boardId, options>>,
                  GetDRCViolationsRet(boardId, options))
  /\ UNCHANGED <<isInitialized, store, now>>

updateDRCRule(boardId, ruleId, input) ==
  /\ IF ~isInitialized THEN
       /\ last' = Call("updateDRCRule", <<boardId, ruleId, input>>, NotInitialized)
       /\ UNCHANGED boards
     ELSE IF boardId \notin DOMAIN boards THEN
       /\ last' = Call("updateDRCRule", <<boardId, ruleId, input>>,
                       BoardNotFound(boardId))
       /\ UNCHANGED boards
     ELSE
       LET index == FindIndex(boards[boardId].designRules, ruleId)
       IN  IF index = 0 THEN
             /\ last' = Call("updateDRCRule", <<boardId, ruleId, input>>,
                             Failure("NOT_FOUND", "DRC rule " \o ruleId \o " not found"))
             /\ UNCHANGED boards
           ELSE
             LET updated ==
                   [boards[boardId].designRules[index] EXCEPT
                      !.value = IF IsSome(input.value) THEN Get(input.value) ELSE @,
                      !.severity = IF IsSome(input.severity) THEN Get(input.severity) ELSE @,
                      !.enabled = IF IsSome(input.enabled) THEN Get(input.enabled) ELSE @]
             IN  /\ boards' = [boards EXCEPT ![boardId] =
                                 [@ EXCEPT !.designRules[index] = updated,
                                           !.updatedAt = now]]
                 /\ last' = Call("updateDRCRule", <<boardId, ruleId, input>>,
                                 Success(updated))
  /\ UNCHANGED <<isInitialized, projects, drcResults, routingResults, now>>

(***************************************************************************)
(* Routing operations.                                                     *)
(***************************************************************************)
NewTraces ==
  << [id |-> "TR006", netId |-> "NET_XTAL_IN", layer |-> "L1",
      points |-> <<[x |-> 58, y |-> 45], [x |-> 52, y |-> 45], [x |-> 50, y |-> 42]>>,
      width |-> 150, status |-> "routed", length |-> 11000],
     [id |-> "TR007", netId |-> "NET_XTAL_OUT", layer |-> "L1",
      points |-> <<[x |-> 62, y |-> 45], [x |-> 65, y |-> 45], [x |-> 65, y |-> 42],
                   [x |-> 52, y |-> 42]>>,
      width |-> 150, status |-> "routed", length |-> 19000] >>

NewVias ==
  << [id |-> "VIA003", netId |-> "NET_GND", position |-> [x |-> 48, y |-> 36],
      drillSize |-> 300, padSize |-> 600, startLayer |-> "L1", endLayer |-> "L2",
      type |-> "through"] >>

RECURSIVE SumLength(_)
SumLength(traces) ==
  IF traces = <<>> THEN 0 ELSE Head(traces).length + SumLength(Tail(traces))

\* a percentage the source holds as a number: num / den
Rate(num, den) == [num |-> num, den |-> den]

\* a result that holds the new traces only
RoutedTracesOnlyNew(board) == NewTraces

\* [...board.traces, ...newTraces]
RoutedTraces(board) == board.traces \o NewTraces

NewRoutingResult(board) ==
  [boardId |-> board.id,
   startedAt |-> now,
   completedAt |-> now + 2500,
   traces |-> RoutedTraces(board),
   vias |-> board.vias \o NewVias,
   completionRate |-> Rate(925, 10),
   unroutedNets |-> <<"NET_SIG1", "NET_SIG2">>,
   violations |-> <<>>,
   statistics |-> [totalLength |-> SumLength(board.traces) + 30000,
                   viaCount |-> Len(board.vias) + Len(NewVias),
                   layerUtilization |-> [L1 |-> 45200, L2 |-> 12000,
                                         L3 |-> 8500, L4 |-> 15300]]]

runAutoRouter(boardId) ==
  /\ boardId \in DOMAIN boards =>
       Len(boards[boardId].traces) + Len(NewTraces) <= MaxTraces
  /\ IF ~isInitialized THEN
       /\ last' = Call("runAutoRouter", <<boardId>>, NotInitialized)
       /\ UNCHANGED <<boards, routingResults>>
     ELSE IF boardId \notin DOMAIN boards THEN
       /\ last' = Call("runAutoRouter", <<boardId>>, BoardNotFound(boardId))
       /\ UNCHANGED <<boards, routingResults>>
     ELSE
       LET result == NewRoutingResult(boards[boardId])
       IN  /\ routingResults' = Put(routingResults, boardId, result)
           /\ boards' = [boards EXCEPT ![boardId] =
                           [@ EXCEPT !.traces = result.traces,
                                     !.vias = result.vias,
                                     !.updatedAt = result.completedAt]]
           /\ last' = Call("runAutoRouter", <<boardId>>, Success(result))
  /\ UNCHANGED <<isInitialized, projects, drcResults, now>>

\* new Set(board.traces.map((t) => t.netId))
RoutedNets(board) == {t.netId : t \in Range(board.traces)}

\* the completion derived from the traces when no routing result is stored
DerivedRoutingStatus(board) ==
  [completionRate |-> Rate(Cardinality(RoutedNets(board)) * 100, Len(board.nets)),
   unroutedNets |-> LET unrouted == SelectSeq(board.nets,
                                              LAMBDA n : n.id \notin RoutedNets(board))
                    IN  [i \in DOMAIN unrouted |-> unrouted[i].id],
   inProgress |-> FALSE]

\* getRoutingStatus looking up the stored result before the initialized check
GetRoutingStatusRetStoredFirst(boardId) ==
  IF boardId \in DOMAIN routingResults THEN
    Success([completionRate |-> routingResults[boardId].completionRate,
             unroutedNets |-> routingResults[boardId].unroutedNets,
             inProgress |-> FALSE])
  ELSE IF ~isInitialized THEN NotInitialized
  ELSE IF boardId \notin DOMAIN boards THEN BoardNotFound(boardId)
  ELSE Success(DerivedRoutingStatus(boards[boardId]))

GetRoutingStatusRet(boardId) ==
  IF ~isInitialized THEN NotInitialized
  ELSE IF boardId \in DOMAIN routingResults THEN
    Success([completionRate |-> routingResults[boardId].completionRate,
             unroutedNets |-> routingResults[boardId].unroutedNets,
             inProgress |-> FALSE])
  ELSE IF boardId \notin DOMAIN boards THEN BoardNotFound(boardId)
  ELSE Success(DerivedRoutingStatus(boards[boardId]))

\* a getRoutingStatus that drops the stored routing results
getRoutingStatusForgetting(boardId) ==
  /\ last' = Call("getRoutingStatus", <<boardId>>, GetRoutingStatusRet(boardId))
  /\ routingResults' = EmptyMap
  /\ UNCHANGED <<isInitialized, projects, boards, drcResults, now>>

getRoutingStatus(boardId) ==
  /\ last' = Call("getRoutingStatus", <<boardId>>, GetRoutingStatusRet(boardId))
  /\ UNCHANGED <<isInitialized, store, now>>

\* netIds alone as the test, an empty list being a filter
HasNetFilterAnyList(netIds) == IsSome(netIds)

\* netIds && netIds.length > 0
HasNetFilter(netIds) == IsSome(netIds) /\ Len(Get(netIds)) > 0

\* what clearRoutes keeps of a list of traces or vias
KeptRoutes(routes, netIds) ==
  IF HasNetFilter(netIds)
    THEN SelectSeq(routes, LAMBDA r : r.netId \notin Range(Get(netIds)))
    ELSE <<>>

clearRoutes(boardId, netIds) ==
  /\ IF ~isInitialized THEN
       /\ last' = Call("clearRoutes", <<boardId, netIds>>, NotInitialized)
       /\ UNCHANGED <<boards, routingResults>>
     ELSE IF boardId \notin DOMAIN boards THEN
       /\ last' = Call("clearRoutes", <<boardId, netIds>>, BoardNotFound(boardId))
       /\ UNCHANGED <<boards, routingResults>>
     ELSE
       /\ boards' = [boards EXCEPT ![boardId] =
                       [@ EXCEPT !.traces = KeptRoutes(@, netIds),
                                 !.vias = KeptRoutes(@, netIds),
                                 !.updatedAt = now]]
       /\ routingResults' = Delete(routingResults, boardId)
       /\ last' = Call("clearRoutes", <<boardId, netIds>>, Success(None))
  /\ UNCHANGED <<isInitialized, projects, drcResults, now>>

(***************************************************************************)
(* Signal integrity.  Math.random() is a source of draws in [0, 1), in     *)
(* thousandths, consumed in call order; the k-th call of a handler reads   *)
(* Draw(rand, k).  Results carry impedance, impedanceDeviation, crosstalk  *)
(* and ringing in tenths (they are rounded to one decimal) and skew in     *)
(* thousandths of a picosecond.  Impedance targets are non-zero.           *)
(***************************************************************************)
Draw(rand, k) == rand[((k - 1) % Len(rand)) + 1]

Abs(n) == IF n < 0 THEN 0 - n ELSE n

\* Math.round(x * 10) / 10 of x = n / unit, in tenths
RoundToTenths(n, unit) == (10 * n + unit \div 2) \div unit

\* x.toFixed(1) of x = milli / 1000
ToFixed1(milli) ==
  LET tenths == (Abs(milli) + 50) \div 100
  IN  (IF milli < 0 THEN "-" ELSE "") \o NumToString(tenths \div 10) \o "."
        \o Digit(tenths % 10)

\* the draws one net consumes
DrawsOf(net) ==
  (IF IsSome(net.impedanceTarget) THEN 1 ELSE 0)
    + (IF IsSome(net.diffPair) /\ Get(net.diffPair) /= "" THEN 1 ELSE 0) + 2

\* a 3 ps target that a skew of exactly 3 ps misses
SkewReaches(skew) == skew >= 3000

\* skew > 3, for a skew in thousandths of a picosecond
SkewExceeds(skew) == skew > 3000

\* the result for one net, the first draw it reads being Draw(rand, k)
AnalyzeNet(net, rand, k) ==
  LET hasImpedanceTarget == IsSome(net.impedanceTarget)
      hasDiffPair == IsSome(net.diffPair) /\ Get(net.diffPair) /= ""
      kSkew == IF hasImpedanceTarget THEN k + 1 ELSE k
      kCrosstalk == IF hasDiffPair THEN kSkew + 1 ELSE kSkew
      kRinging == kCrosstalk + 1
      \* target * (0.9 + random * 0.2), in millionths
      actualImpedance ==
        IF hasImpedanceTarget
          THEN Get(net.impedanceTarget) * (900000 + 200 * Draw(rand, k))
          ELSE 50 * 1000000
      \* ((actual - target) / target) * 100, in thousandths of a percent
      deviation ==
        IF hasImpedanceTarget
          THEN Some((100 * (actualImpedance - Get(net.impedanceTarget) * 1000000))
                      \div (1000 * Get(net.impedanceTarget)))
          ELSE None
      skew == IF hasDiffPair THEN Some(5 * Draw(rand, kSkew)) ELSE None
      crosstalk == 15 * Draw(rand, kCrosstalk) - 35000
      impedanceIssue ==
        IF hasImpedanceTarget /\ Abs(Get(deviation)) > 10000
          THEN << "Impedance deviation " \o ToFixed1(Get(deviation))
                    \o "% exceeds 10% tolerance" >>
          ELSE <<>>
      skewIssue ==
        IF IsSome(skew) /\ SkewExceeds(Get(skew))
          THEN << "Differential pair skew " \o ToFixed1(Get(skew))
                    \o "ps exceeds 3ps target" >>
          ELSE <<>>
      crosstalkIssue ==
        IF crosstalk > 0 - 25000
          THEN << "Crosstalk " \o ToFixed1(crosstalk) \o "dB exceeds -25dB threshold" >>
          ELSE <<>>
      issues == impedanceIssue \o skewIssue \o crosstalkIssue
  IN  [netId |-> net.id,
       netName |-> net.name,
       impedance |-> RoundToTenths(actualImpedance, 1000000),
       impedanceTarget |-> net.impedanceTarget,
       impedanceDeviation |->
         IF IsSome(deviation) THEN Some(RoundToTenths(Get(deviation), 1000)) ELSE None,
       crosstalk |-> RoundToTenths(crosstalk, 1000),
       crosstalkVictims |->
         IF crosstalk > 0 - 25000 THEN << StrOr(net.diffPair, "NET_GND") >> ELSE <<>>,
       skew |-> skew,
       ringing |-> RoundToTenths(15 * Draw(rand, kRinging), 1000),
       passed |-> issues = <<>>,
       issues |-> issues]

RECURSIVE AnalyzeNets(_, _, _)
AnalyzeNets(nets, rand, k) ==
  IF nets = <<>> THEN <<>>
  ELSE << AnalyzeNet(Head(nets), rand, k) >>
         \o AnalyzeNets(Tail(nets), rand, k + DrawsOf(Head(nets)))

NetsToAnalyze(board, netIds) ==
  IF IsSome(netIds)
    THEN SelectSeq(board.nets, LAMBDA n : n.id \in Range(Get(netIds)))
    ELSE SelectSeq(board.nets,
                   LAMBDA n : n.netClass = "differential" \/ n.netClass = "high_speed")

AnalyzeSignalIntegrityRet(boardId, netIds, rand) ==
  IF ~isInitialized THEN NotInitialized
  ELSE IF boardId \notin DOMAIN boards THEN BoardNotFound(boardId)
  ELSE Success(AnalyzeNets(NetsToAnalyze(boards[boardId], netIds), rand, 1))

analyzeSignalIntegrity(boardId, netIds, rand) ==
  /\ last' = Call("analyzeSignalIntegrity", <<boardId, netIds>>,
                  AnalyzeSignalIntegrityRet(boardId, netIds, rand))
  /\ UNCHANGED <<isInitialized, store, now>>

(***************************************************************************)
(* Export operations.                                                      *)
(***************************************************************************)
StandardGerberFiles(boardName) ==
  << [name |-> boardName \o "_TopSolderMask.gbr", layer |-> "Top",
      type |-> "soldermask", size |-> 8500],
     [name |-> boardName \o "_BottomSolderMask.gbr", layer |-> "Bottom",
      type |-> "soldermask", size |-> 8200],
     [name |-> boardName \o "_TopSilkscreen.gbr", layer |-> "Top",
      type |-> "silkscreen", size |-> 3200],
     [name |-> boardName \o "_BottomSilkscreen.gbr", layer |-> "Bottom",
      type |-> "silkscreen", size |-> 1800],
     [name |-> boardName \o "_TopPaste.gbr", layer |-> "Top",
      type |-> "paste", size |-> 2100],
     [name |-> boardName \o "_BottomPaste.gbr", layer |-> "Bottom",
      type |-> "paste", size |-> 1500],
     [name |-> boardName \o "_Drill.drl", layer |-> "All",
      type |-> "drill", size |-> 4500],
     [name |-> boardName \o "_Outline.gbr", layer |-> "Outline",
      type |-> "outline", size |-> 1200] >>

\* the copper files of the requested layers that exist on the board, the
\* first of them reading Draw(rand, k)
RECURSIVE CopperFiles(_, _, _, _)
CopperFiles(board, layerIds, rand, k) ==
  IF layerIds = <<>> THEN <<>>
  ELSE LET index == FindIndex(board.layers, Head(layerIds))
       IN  IF index = 0 THEN CopperFiles(board, Tail(layerIds), rand, k)
           ELSE << [name |-> board.name \o "_" \o board.layers[index].name \o ".gbr",
                    layer |-> board.layers[index].name,
                    type |-> "copper",
                    size |-> 15000 + 10 * Draw(rand, k)] >>
                  \o CopperFiles(board, Tail(layerIds), rand, k + 1)

ExportGerberRet(boardId, options, rand) ==
  IF ~isInitialized THEN NotInitialized
  ELSE IF boardId \notin DOMAIN boards THEN BoardNotFound(boardId)
  ELSE LET board == boards[boardId]
           layerIds == IF IsSome(options.layers) THEN Get(options.layers)
                       ELSE [i \in DOMAIN board.layers |-> board.layers[i].id]
       IN  Success([boardId |-> boardId,
                    generatedAt |-> now,
                    files |-> CopperFiles(board, layerIds, rand, 1)
                                \o StandardGerberFiles(board.name),
                    format |-> StrOr(options.format, "RS-274X"),
                    units |-> StrOr(options.units, "mm")])

exportGerber(boardId, options, rand) ==
  /\ last' = Call("exportGerber", <<boardId, options>>,
                  ExportGerberRet(boardId, options, rand))
  /\ UNCHANGED <<isInitialized, store, now>>

\* code-unit order of the characters that occur in designators
CharOrder == "0123456789ABCDEFGHIJKLMNOPQRSTUVWXYZ_abcdefghijklmnopqrstuvwxyz"

CharCode(c) ==
  IF \E i \in 1..Len(CharOrder) : SubSeq(CharOrder, i, i) = c
    THEN CHOOSE i \in 1..Len(CharOrder) : SubSeq(CharOrder, i, i) = c
    ELSE 0

\* a < b in the default order of Array.prototype.sort
RECURSIVE StringLess(_, _)
StringLess(a, b) ==
  IF b = "" THEN FALSE
  ELSE IF a = "" THEN TRUE
  ELSE IF Head(a) = Head(b) THEN StringLess(Tail(a), Tail(b))
  ELSE CharCode(Head(a)) < CharCode(Head(b))

RECURSIVE InsertSorted(_, _)
InsertSorted(sorted, s) ==
  IF sorted = <<>> THEN <<s>>
  ELSE IF StringLess(s, Head(sorted)) THEN <<s>> \o sorted
  ELSE <<Head(sorted)>> \o InsertSorted(Tail(sorted), s)

RECURSIVE Sort(_)
Sort(strings) ==
  IF strings = <<>> THEN <<>>
  ELSE InsertSorted(Sort(SubSeq(strings, 1, Len(strings) - 1)), strings[Len(strings)])

RECURSIVE Join(_, _)
Join(strings, separator) ==
  IF strings = <<>> THEN ""
  ELSE IF Len(strings) = 1 THEN strings[1]
  ELSE strings[1] \o separator \o Join(Tail(strings), separator)

\* `${comp.partNumber || comp.name}_${comp.value || ""}`
GroupKey(comp) == StrOr(comp.partNumber, comp.name) \o "_" \o StrOr(comp.value, "")

\* the grouped entries, in the order in which their keys first occur
GroupedEntries(components) ==
  LET first == SelectSeq([i \in DOMAIN components |-> i],
                         LAMBDA i : \A j \in 1..(i - 1) :
                                      GroupKey(components[j]) /= GroupKey(components[i]))
      Group(i) == SelectSeq(components,
                            LAMBDA c : GroupKey(c) = GroupKey(components[i]))
  IN  [g \in DOMAIN first |->
         LET comp == components[first[g]]
             members == Group(first[g])
         IN  [designator |->
                Join(Sort([m \in DOMAIN members |-> members[m].designator]), ", "),
              partNumber |-> comp.partNumber,
              value |-> comp.value,
              package |-> comp.package,
              quantity |-> Len(members),
              manufacturer |-> None,
              description |-> Some(comp.name)]]

SingleEntries(components) ==
  [i \in DOMAIN components |->
     [designator |-> components[i].designator,
      partNumber |-> components[i].partNumber,
      value |-> components[i].value,
      package |-> components[i].package,
      quantity |-> 1,
      manufacturer |-> None,
      description |-> Some(components[i].name)]]

TotalParts(components) ==
  Cardinality({StrOr(c.partNumber, c.name) : c \in Range(components)})

\* board.components.length
TotalComponents(components) == Len(components)

ExportBOMRet(boardId, options) ==
  IF ~isInitialized THEN NotInitialized
  ELSE IF boardId \notin DOMAIN boards THEN BoardNotFound(boardId)
  ELSE LET components == boards[boardId].components
           groupByValue == IF IsSome(options.groupByValue)
                             THEN Get(options.groupByValue) ELSE TRUE
       IN  Success([boardId |-> boardId,
                    generatedAt |-> now,
                    entries |-> IF groupByValue THEN GroupedEntries(components)
                                ELSE SingleEntries(components),
                    totalComponents |-> TotalComponents(components),
                    uniqueParts |->
                      Cardinality({StrOr(c.partNumber, c.name) : c \in Range(components)})])

exportBOM(boardId, options) ==
  /\ last' = Call("exportBOM", <<boardId, options>>, ExportBOMRet(boardId, options))
  /\ UNCHANGED <<isInitialized, store, now>>


(***************************************************************************)
(* PCBDesignService (samples/eda-pcb/sdk): what its methods compute from   *)
(* the board and from the results of the connector calls.                  *)
(***************************************************************************)
\* a failure that keeps the message under a code of its own
PropagateWrapped(result) == Failure("INTERNAL_ERROR", result.error.message)

\* failure(result.error!)
Propagate(result) == Failure(result.error.code, result.error.message)

Min(a, b) == IF a < b THEN a ELSE b

\* Math.round(num / den), den > 0
RoundDiv(num, den) == (2 * num + den) \div (2 * den)

\* the BoardSummary of getBoardSummary
BoardSummaryOf(board, routingStatus) ==
  [id |-> board.id,
   name |-> board.name,
   dimensions |-> [width |-> board.width, height |-> board.height],
   layerCount |-> Len(board.layers),
   componentCount |-> Len(board.components),
   netCount |-> Len(board.nets),
   routingCompletion |-> IF routingStatus.success
                           THEN routingStatus.data.completionRate ELSE Rate(0, 1),
   lastModified |-> board.updatedAt]

\* byPackage: the number of components of each package
ByPackage(components) ==
  [p \in {c.package : c \in Range(components)} |->
     Len(SelectSeq(components, LAMBDA c : c.package = p))]

StartsWith(s, prefix) == Len(s) >= Len(prefix) /\ SubSeq(s, 1, Len(prefix)) = prefix

\* a filter that takes SOIC for QFN
IsCriticalWithSOIC(c) ==
  \/ c.package \in {"LQFP", "QFP", "BGA", "SOIC"}
  \/ StartsWith(c.designator, "J")
  \/ StartsWith(c.designator, "Y")

\* ICs, connectors, crystals
IsCritical(c) ==
  \/ c.package \in {"LQFP", "QFP", "BGA", "QFN"}
  \/ StartsWith(c.designator, "J")
  \/ StartsWith(c.designator, "Y")

CriticalComponents(components) ==
  LET critical == SelectSeq(components, IsCritical)
  IN  [i \in DOMAIN critical |-> critical[i].designator]

\* pkgAreas[c.package] || 10
PackageArea(package) ==
  CASE package \in {"LQFP", "QFP"} -> 100
    [] package = "BGA" -> 144
    [] package = "QFN" -> 25
    [] package = "SOIC" -> 30
    [] package = "SMD0402" -> 1
    [] package = "SMD0603" -> 2
    [] package = "SMD0805" -> 4
    [] package = "DIP" -> 50
    [] package = "TQFP" -> 64
    [] OTHER -> 10

RECURSIVE ComponentArea(_)
ComponentArea(components) ==
  IF components = <<>> THEN 0
  ELSE PackageArea(Head(components).package) + ComponentArea(Tail(components))

HighDensitySuggestion ==
  "High placement density detected. Consider increasing board size or using smaller packages."
OneLayerSuggestion ==
  "All components on top layer. Consider using bottom layer for passive components to reduce routing complexity."
CriticalSuggestion(criticalComponents) ==
  "Critical components identified: " \o Join(criticalComponents, ", ")
    \o ". Ensure adequate bypass capacitors are placed nearby."

\* placementDensity > 60 for placementDensity = componentArea / boardArea * 100
DensityAbove60(componentArea, boardArea) ==
  IF boardArea = 0 THEN componentArea > 0
  ELSE componentArea * 100 > 60 * boardArea

\* the one-layer suggestion for any number of components on top
PlacementSuggestionsAnyCount(board) ==
  LET components == board.components
      topCount == Len(SelectSeq(components, LAMBDA c : c.layer = "top"))
      bottomCount == Len(SelectSeq(components, LAMBDA c : c.layer = "bottom"))
      critical == CriticalComponents(components)
  IN  (IF DensityAbove60(ComponentArea(components), board.width * board.height)
         THEN <<HighDensitySuggestion>> ELSE <<>>)
      \o (IF bottomCount = 0 /\ topCount > 0 THEN <<OneLayerSuggestion>> ELSE <<>>)
      \o (IF Len(critical) > 0 THEN <<CriticalSuggestion(critical)>> ELSE <<>>)

PlacementSuggestions(board) ==
  LET components == board.components
      topCount == Len(SelectSeq(components, LAMBDA c : c.layer = "top"))
      bottomCount == Len(SelectSeq(components, LAMBDA c : c.layer = "bottom"))
      critical == CriticalComponents(components)
  IN  (IF DensityAbove60(ComponentArea(components), board.width * board.height)
         THEN <<HighDensitySuggestion>> ELSE <<>>)
      \o (IF bottomCount = 0 /\ topCount > 10 THEN <<OneLayerSuggestion>> ELSE <<>>)
      \o (IF Len(critical) > 0 THEN <<CriticalSuggestion(critical)>> ELSE <<>>)

\* the ComponentPlacementAnalysis of analyzeComponentPlacement; the density
\* is Math.round(density * 10) / 10, a number of tenths over 10
PlacementAnalysisOf(board) ==
  LET components == board.components
      boardArea == board.width * board.height
  IN  [totalComponents |-> Len(components),
       byLayer |-> [top |-> Len(SelectSeq(components, LAMBDA c : c.layer = "top")),
                    bottom |-> Len(SelectSeq(components, LAMBDA c : c.layer = "bottom"))],
       byPackage |-> ByPackage(components),
       criticalComponents |-> CriticalComponents(components),
       placementDensity |->
         IF boardArea = 0 THEN Rate(ComponentArea(components) * 100, 0)
         ELSE Rate(RoundDiv(ComponentArea(components) * 1000, boardArea), 10),
       suggestions |-> PlacementSuggestions(board)]

\* Math.min(100, Math.round((layerLength / maxLength) * 100)) for the traces
\* of one layer, maxLength = (board.width + board.height) * 10
LayerUtilizationOf(board, layer) ==
  LET layerLength == SumLength(SelectSeq(board.traces, LAMBDA t : t.layer = layer.id))
      maxLength == (board.width + board.height) * 10
  IN  IF maxLength = 0
        THEN (IF layerLength = 0 THEN Rate(0, 0) ELSE Rate(100, 1))
        ELSE Rate(Min(100, RoundDiv(layerLength, maxLength * 10)), 1)

\* the Map from layer name to utilization; a later layer of the same name
\* overwrites an earlier one
LayerUtilization(board) ==
  [n \in {l.name : l \in Range(board.layers)} |->
     LET i == CHOOSE i \in DOMAIN board.layers :
                /\ board.layers[i].name = n
                /\ \A j \in DOMAIN board.layers : board.layers[j].name = n => j <= i
     IN  LayerUtilizationOf(board, board.layers[i])]

CriticalNets(board) ==
  LET critical == SelectSeq(board.nets, LAMBDA n : n.priority \in {"critical", "high"})
  IN  [i \in DOMAIN critical |->
         [netId |-> critical[i].id,
          netName |-> critical[i].name,
          priority |-> critical[i].priority,
          routed |-> critical[i].id \in RoutedNets(board)]]

\* the RoutingAnalysis of analyzeRouting
RoutingAnalysisOf(board, routingStatus) ==
  [completionRate |->
     IF routingStatus.success THEN routingStatus.data.completionRate
     ELSE Rate(Cardinality(RoutedNets(board)) * 100, Len(board.nets)),
   totalTraceLength |-> SumLength(board.traces),
   viaCount |-> Len(board.vias),
   layerUtilization |-> LayerUtilization(board),
   unroutedNets |->
     IF routingStatus.success THEN routingStatus.data.unroutedNets
     ELSE LET unrouted == SelectSeq(board.nets, LAMBDA n : n.id \notin RoutedNets(board))
          IN  [i \in DOMAIN unrouted |-> unrouted[i].id],
   criticalNets |-> CriticalNets(board)]

\* a default that reports the check as passed
DefaultDRCDataPassed ==
  [passed |-> TRUE, violations |-> <<>>,
   summary |-> [errors |-> 0, warnings |-> 0, info |-> 0]]

\* what getDesignHealthReport uses when a sub-call failed
DefaultDRCData ==
  [passed |-> FALSE, violations |-> <<>>,
   summary |-> [errors |-> 0, warnings |-> 0, info |-> 0]]

DefaultRoutingData ==
  [completionRate |-> Rate(0, 1), totalTraceLength |-> 0, viaCount |-> 0,
   layerUtilization |-> EmptyMap, unroutedNets |-> <<>>, criticalNets |-> <<>>]

RECURSIVE Flatten(_)
Flatten(lists) == IF lists = <<>> THEN <<>> ELSE Head(lists) \o Flatten(Tail(lists))

Recommendations(drcData, siData, routingData) ==
  LET failedSI == SelectSeq(siData, LAMBDA s : ~s.passed)
      rate == routingData.completionRate
      unroutedCritical == SelectSeq(routingData.criticalNets, LAMBDA n : ~n.routed)
  IN  (IF drcData.summary.errors > 0
         THEN <<"Fix " \o NumToString(drcData.summary.errors)
                  \o " DRC errors before manufacturing.">>
         ELSE <<>>)
      \o (IF drcData.summary.warnings > 3
            THEN <<"Review " \o NumToString(drcData.summary.warnings)
                     \o " DRC warnings for potential issues.">>
            ELSE <<>>)
      \o (IF Len(failedSI) > 0
            THEN <<NumToString(Len(failedSI))
                     \o " nets have signal integrity issues. Review trace widths and spacing.">>
            ELSE <<>>)
      \o (IF rate.den > 0 /\ rate.num < 100 * rate.den
            THEN <<NumToString(RoundDiv(100 * rate.den - rate.num, rate.den))
                     \o "% of nets still unrouted. Consider running auto-router.">>
            ELSE <<>>)
      \o (IF Len(unroutedCritical) > 0
            THEN <<"Critical nets unrouted: "
                     \o Join([i \in DOMAIN unroutedCritical |-> unroutedCritical[i].netName],
                             ", ")
                     \o ". Route these manually first.">>
            ELSE <<>>)

\* the DesignHealthReport of getDesignHealthReport
HealthReportOf(summary, drcData, siData, routingData) ==
  LET failedSI == SelectSeq(siData, LAMBDA s : ~s.passed)
  IN  [board |-> summary,
       drc |-> [passed |-> drcData.passed,
                errorCount |-> drcData.summary.errors,
                warningCount |-> drcData.summary.warnings,
                criticalViolations |->
                  SelectSeq(drcData.violations, LAMBDA v : v.severity = "error")],
       signalIntegrity |->
         [analyzed |-> Len(siData),
          passed |-> Len(SelectSeq(siData, LAMBDA s : s.passed)),
          failed |-> Len(failedSI),
          issues |-> Flatten([i \in DOMAIN failedSI |-> failedSI[i].issues])],
       routing |-> routingData,
       recommendations |-> Recommendations(drcData, siData, routingData)]

(***************************************************************************)
(* PCBDesignService methods.  A method runs from one await to the next in  *)
(* one step; the connector call it awaits executes in the step that makes  *)
(* the call, and the code after the await runs in the next step of the     *)
(* method, on the board object as it is then.  A return that depends on    *)
(* nothing but the results already held is taken in the step of the call.  *)
(***************************************************************************)
CanStart == svc.pc \in {"idle", "done"}

At(method, pc) == svc.method = method /\ svc.pc = pc

Suspend(pc, acc) == [svc EXCEPT !.pc = pc, !.acc = acc]

Return(acc, ret) == Done(svc.method, svc.boardId, acc, ret)

ConnectorUnchanged == UNCHANGED <<isInitialized, store, now, last>>

getBoardSummary(boardId) ==
  /\ CanStart
  /\ getBoard(boardId)
  /\ svc' = IF last'.ret.success
              THEN Running("getBoardSummary", boardId, "getRoutingStatus", <<>>)
              ELSE Done("getBoardSummary", boardId, <<>>, Propagate(last'.ret))

getBoardSummary_getRoutingStatus ==
  /\ At("getBoardSummary", "getRoutingStatus")
  /\ getRoutingStatus(svc.boardId)
  /\ svc' = Suspend("return", <<last'.ret>>)

getBoardSummary_return ==
  /\ At("getBoardSummary", "return")
  /\ svc' = Return(svc.acc, Success(BoardSummaryOf(boards[svc.boardId], svc.acc[1])))
  /\ ConnectorUnchanged

analyzeComponentPlacement(boardId) ==
  /\ CanStart
  /\ getBoard(boardId)
  /\ svc' = IF last'.ret.success
              THEN Running("analyzeComponentPlacement", boardId, "return", <<>>)
              ELSE Done("analyzeComponentPlacement", boardId, <<>>, Propagate(last'.ret))

analyzeComponentPlacement_return ==
  /\ At("analyzeComponentPlacement", "return")
  /\ svc' = Return(<<>>, Success(PlacementAnalysisOf(boards[svc.boardId])))
  /\ ConnectorUnchanged

analyzeRouting(boardId) ==
  /\ CanStart
  /\ getBoard(boardId)
  /\ svc' = IF last'.ret.success
              THEN Running("analyzeRouting", boardId, "getRoutingStatus", <<>>)
              ELSE Done("analyzeRouting", boardId, <<>>, Propagate(last'.ret))

analyzeRouting_getRoutingStatus ==
  /\ At("analyzeRouting", "getRoutingStatus")
  /\ getRoutingStatus(svc.boardId)
  /\ svc' = Suspend("return", <<last'.ret>>)

analyzeRouting_return ==
  /\ At("analyzeRouting", "return")
  /\ svc' = Return(svc.acc, Success(RoutingAnalysisOf(boards[svc.boardId], svc.acc[1])))
  /\ ConnectorUnchanged

runDesignRuleCheck(boardId) ==
  /\ CanStart
  /\ runDRC(boardId)
  /\ svc' = Done("runDesignRuleCheck", boardId, <<>>, last'.ret)

\* the mock connector ignores the routing options the strategy is turned into
runAutoRouting(boardId) ==
  /\ CanStart
  /\ runAutoRouter(boardId)
  /\ svc' = Done("runAutoRouting", boardId, <<>>, last'.ret)

serviceAnalyzeSignalIntegrity(boardId, rand) ==
  /\ CanStart
  /\ analyzeSignalIntegrity(boardId, None, rand)
  /\ svc' = Done("analyzeSignalIntegrity", boardId, <<>>, last'.ret)

ManufacturingFilesIgnoringBOM(gerberResult, bomResult) ==
  Success([gerber |-> gerberResult.data,
           bom |-> IF bomResult.success THEN bomResult.data ELSE <<>>])

\* what exportManufacturingFiles returns once exportBOM has returned
ManufacturingFilesOf(gerberResult, bomResult) ==
  IF bomResult.success
    THEN Success([gerber |-> gerberResult.data, bom |-> bomResult.data])
    ELSE Propagate(bomResult)

exportManufacturingFiles(boardId, rand) ==
  /\ CanStart
  /\ exportGerber(boardId,
                  [format |-> Some("RS-274X"), units |-> Some("mm"), layers |-> None],
                  rand)
  /\ svc' = IF last'.ret.success
              THEN Running("exportManufacturingFiles", boardId, "exportBOM", <<last'.ret>>)
              ELSE Done("exportManufacturingFiles", boardId, <<last'.ret>>,
                        Propagate(last'.ret))

exportManufacturingFiles_exportBOM ==
  /\ At("exportManufacturingFiles", "exportBOM")
  /\ exportBOM(svc.boardId, [groupByValue |-> Some(TRUE), includeUnplaced |-> Some(FALSE)])
  /\ svc' = Return(svc.acc \o <<last'.ret>>, ManufacturingFilesOf(svc.acc[1], last'.ret))

\* the report built from the summary and the results of the three sub-calls
HealthReportFrom(summary, drcResult, siResult, routingResult) ==
  HealthReportOf(summary,
                 IF drcResult.success THEN drcResult.data ELSE DefaultDRCData,
                 IF siResult.success THEN siResult.data ELSE <<>>,
                 IF routingResult.success THEN routingResult.data ELSE DefaultRoutingData)

\* this.getBoardSummary(boardId), up to its first await
getDesignHealthReport(boardId) ==
  /\ CanStart
  /\ getBoard(boardId)
  /\ svc' = IF last'.ret.success
              THEN Running("getDesignHealthReport", boardId, "summary.getRoutingStatus", <<>>)
              ELSE Done("getDesignHealthReport", boardId, <<>>, Propagate(last'.ret))

getDesignHealthReport_summaryStatus ==
  /\ At("getDesignHealthReport", "summary.getRoutingStatus")
  /\ getRoutingStatus(svc.boardId)
  /\ svc' = Suspend("summary.return", <<last'.ret>>)

\* getBoardSummary returns the summary
getDesignHealthReport_summaryReturn ==
  /\ At("getDesignHealthReport", "summary.return")
  /\ svc' = Suspend("runDRC", <<BoardSummaryOf(boards[svc.boardId], svc.acc[1])>>)
  /\ ConnectorUnchanged

getDesignHealthReport_runDRC ==
  /\ At("getDesignHealthReport", "runDRC")
  /\ runDRC(svc.boardId)
  /\ svc' = Suspend("analyzeSignalIntegrity", svc.acc \o <<last'.ret>>)

getDesignHealthReport_analyzeSignalIntegrity(rand) ==
  /\ At("getDesignHealthReport", "analyzeSignalIntegrity")
  /\ analyzeSignalIntegrity(svc.boardId, None, rand)
  /\ svc' = Suspend("routing.getBoard", svc.acc \o <<last'.ret>>)

\* this.analyzeRouting(boardId), up to its first await
getDesignHealthReport_routingBoard ==
  /\ At("getDesignHealthReport", "routing.getBoard")
  /\ getBoard(svc.boardId)
  /\ svc' = IF last'.ret.success
              THEN Suspend("routing.getRoutingStatus", svc.acc)
              ELSE LET routingResult == Propagate(last'.ret)
                   IN  Return(svc.acc \o <<routingResult>>,
                              Success(HealthReportFrom(svc.acc[1], svc.acc[2], svc.acc[3],
                                                       routingResult)))

getDesignHealthReport_routingStatus ==
  /\ At("getDesignHealthReport", "routing.getRoutingStatus")
  /\ getRoutingStatus(svc.boardId)
  /\ svc' = Suspend("routing.return", svc.acc \o <<last'.ret>>)

\* analyzeRouting returns the analysis and the report is built from it
getDesignHealthReport_return ==
  /\ At("getDesignHealthReport", "routing.return")
  /\ LET routingResult == Success(RoutingAnalysisOf(boards[svc.boardId], svc.acc[4]))
     IN  svc' = Return(SubSeq(svc.acc, 1, 3) \o <<routingResult>>,
                       Success(HealthReportFrom(svc.acc[1], svc.acc[2], svc.acc[3],
                                                routingResult)))
  /\ ConnectorUnchanged

(***************************************************************************)
(* LiveEDAConnector: the stub that createEDAConnector returns for every    *)
(* mode other than "mock".                                                 *)
(***************************************************************************)
\* the operations of the interface other than initialize and dispose
LiveOperations ==
  { "healthCheck", "listProjects", "getProject", "createProject", "updateProject",
    "getBoard", "createBoard", "updateBoard", "listComponents", "getComponent",
    "placeComponent", "moveComponent", "deleteComponent", "listNets", "getNet",
    "createNet", "updateNet", "runDRC", "getDRCViolations", "updateDRCRule",
    "runAutoRouter", "getRoutingStatus", "clearRoutes", "analyzeSignalIntegrity",
    "exportGerber", "exportBOM" }

NotImplemented == Failure("NOT_IMPLEMENTED", "Live EDA connector not yet implemented")

AuthRequired == Failure("AUTH_REQUIRED", "EDA API token is required for live mode")

HasApiTokenAlways(config) == TRUE

\* this.config.apiToken is truthy: present and not the empty string
HasApiToken(config) == IsSome(config.apiToken) /\ Get(config.apiToken) /= ""

LiveCreated == IsSome(live.config)

\* createEDAConnector(config) with config.mode other than "mock"
createLiveEDAConnector(config) ==
  /\ ~LiveCreated
  /\ config.mode /= "mock"
  /\ live' = [config |-> Some(config), isInitialized |-> FALSE,
              last |-> Some(Call("constructor", <<>>, Success(None)))]

liveInitialize ==
  /\ LiveCreated
  /\ live' = IF HasApiToken(Get(live.config))
               THEN [live EXCEPT !.isInitialized = TRUE,
                                 !.last = Some(Call("initialize", <<>>, Success(None)))]
               ELSE [live EXCEPT !.last = Some(Call("initialize", <<>>, AuthRequired))]

liveDispose ==
  /\ LiveCreated
  /\ live' = [live EXCEPT !.isInitialized = FALSE,
                          !.last = Some(Call("dispose", <<>>, Success(None)))]

\* every other operation of the live connector
liveOperation(op) ==
  /\ LiveCreated
  /\ live' = [live EXCEPT !.last = Some(Call(op, <<>>, NotImplemented))]
(***************************************************************************)
(* Inputs of the specifications.                                           *)
(***************************************************************************)
DeleteTargets ==
  ({BoardId(1)} \X ComponentIdInputs) \cup {<<MissingBoard, ComponentId(1)>>}
MoveTargets ==
  ({BoardId(1)} \X {ComponentId(n) : n \in 1..3}) \cup {<<MissingBoard, ComponentId(1)>>}
GetTargets ==
  ({BoardId(1)} \X {ComponentId(n) : n \in {1, 2, 3, 9}})
    \cup {<<MissingBoard, ComponentId(1)>>}

BoardInputs ==
  { [name |-> "Test", width |-> 100, height |-> 80, layerCount |-> 4] }

NetInputs ==
  { [name |-> "xtal in", pinRefs |-> <<"COMP006:P1">>, priority |-> Some("high"),
     impedanceTarget |-> Some(50), netClass |-> Some("high_speed")],
    [name |-> "CLK", pinRefs |-> <<>>, priority |-> None,
     impedanceTarget |-> None, netClass |-> None] }

NetUpdates ==
  { [name |-> Some("CLOCK"), priority |-> Some("critical"), impedanceTarget |-> None,
     maxLength |-> Some(25), diffPair |-> None] }

NetFilters == { None, Some(<<>>), Some(<<"NET_XTAL_IN", "NET_VCC">>) }

ViolationFilters ==
  { [severity |-> None, ruleType |-> None],
    [severity |-> Some("warning"), ruleType |-> None],
    [severity |-> Some("error"), ruleType |-> Some("width")] }

PageOptions == { [limit |-> None, offset |-> None], [limit |-> Some(1), offset |-> Some(1)] }

ProjectIdInputs == {ProjectId(2), "PROJ999"}

ProjectUpdates ==
  { [name |-> None, description |-> Some("Rev B"), status |-> Some("approved")] }

BoardUpdates == { [name |-> Some("Renamed"), width |-> None, height |-> Some(50)] }

RuleUpdates == { [value |-> Some(200), severity |-> None, enabled |-> Some(FALSE)] }

RandomSources == { <<0>>, <<999, 400>> }

GerberOptions ==
  { [format |-> None, units |-> None, layers |-> None],
    [format |-> Some("RS-274D"), units |-> Some("inch"), layers |-> Some(<<"L1", "L9">>)] }

BOMOptions ==
  { [groupByValue |-> None, includeUnplaced |-> None],
    [groupByValue |-> Some(FALSE), includeUnplaced |-> None] }

\* a step that is not counted against the call budget
Free(A) == A /\ UNCHANGED <<calls, svc, live>>

\* a step that is counted against the call budget
Counted(A) == calls < MaxCalls /\ calls' = calls + 1 /\ A /\ UNCHANGED <<svc, live>>

(***************************************************************************)
(* The component operations on the seeded board.                           *)
(***************************************************************************)
NextComponents ==
  \/ Free(initialize)
  \/ \E t \in GetTargets : Free(getComponent(t[1], t[2]))
  \/ \E b \in {BoardId(1), MissingBoard}, i \in PlaceInputs : Free(placeComponent(b, i))
  \/ \E t \in MoveTargets, i \in MoveInputs : Free(moveComponent(t[1], t[2], i))
  \/ \E t \in DeleteTargets : Free(deleteComponent(t[1], t[2]))

SpecComponents == Init /\ [][NextComponents]_vars

(***************************************************************************)
(* Nets and routing on the seeded board.                                   *)
(***************************************************************************)
RoutingBoards == {BoardId(1), MissingBoard}

NextRouting ==
  \/ Free(initialize)
  \/ \E b \in RoutingBoards, i \in NetInputs : Free(createNet(b, i))
  \/ \E b \in RoutingBoards, i \in NetUpdates : Free(updateNet(b, "NET_CLK", i))
  \/ \E b \in RoutingBoards : Free(runAutoRouter(b))
  \/ \E b \in RoutingBoards : Free(getRoutingStatus(b))
  \/ \E b \in RoutingBoards, f \in NetFilters : Free(clearRoutes(b, f))

SpecRouting == Init /\ [][NextRouting]_vars

(***************************************************************************)
(* Nets and routing on a board made by createBoard.                        *)
(***************************************************************************)
NextNewBoard ==
  \/ Free(initialize)
  \/ \E p \in ProjectIdInputs, i \in BoardInputs : Free(createBoard(p, i))
  \/ \E i \in NetInputs : Free(createNet(BoardId(2), i))
  \/ \E i \in NetUpdates : Free(updateNet(BoardId(2), "NET_CLK", i))
  \/ Free(runAutoRouter(BoardId(2)))
  \/ Free(getRoutingStatus(BoardId(2)))
  \/ \E f \in NetFilters : Free(clearRoutes(BoardId(2), f))

SpecNewBoard == Init /\ [][NextNewBoard]_vars

(***************************************************************************)
(* Design rule checks on the seeded and on a created board, as time passes.*)
(***************************************************************************)
NextDRC ==
  \/ Free(initialize)
  \/ Free(dispose)
  \/ Free(Tick)
  \/ \E i \in BoardInputs : Free(createBoard(ProjectId(2), i))
  \/ \E b \in BoardIdInputs : Free(runDRC(b))
  \/ \E b \in BoardIdInputs, o \in ViolationFilters : Free(getDRCViolations(b, o))

SpecDRC == Init /\ [][NextDRC]_vars

(***************************************************************************)
(* The design service over the connector: its methods step by step, while  *)
(* other callers initialize and dispose the connector and, within a budget *)
(* of MaxCalls calls, a board is created or routed.                        *)
(***************************************************************************)
\* a step of a service method
Service(A) == A /\ UNCHANGED <<calls, live>>

\* a call of a service method that is counted against the call budget
CountedService(A) == calls < MaxCalls /\ calls' = calls + 1 /\ A /\ UNCHANGED live

NextService ==
  \/ Free(initialize)
  \/ Free(dispose)
  \/ \E i \in BoardInputs : Counted(createBoard(ProjectId(2), i))
  \/ \E b \in BoardIds : Service(getBoardSummary(b))
  \/ Service(getBoardSummary_getRoutingStatus)
  \/ Service(getBoardSummary_return)
  \/ \E b \in BoardIds : Service(analyzeComponentPlacement(b))
  \/ Service(analyzeComponentPlacement_return)
  \/ \E b \in BoardIds : Service(analyzeRouting(b))
  \/ Service(analyzeRouting_getRoutingStatus)
  \/ Service(analyzeRouting_return)
  \/ \E b \in BoardIds : Service(runDesignRuleCheck(b))
  \/ \E b \in BoardIds : CountedService(runAutoRouting(b))
  \/ \E b \in BoardIds, r \in RandomSources : Service(serviceAnalyzeSignalIntegrity(b, r))
  \/ \E b \in BoardIds, r \in RandomSources : Service(exportManufacturingFiles(b, r))
  \/ Service(exportManufacturingFiles_exportBOM)
  \/ \E b \in BoardIds : Service(getDesignHealthReport(b))
  \/ Service(getDesignHealthReport_summaryStatus)
  \/ Service(getDesignHealthReport_summaryReturn)
  \/ Service(getDesignHealthReport_runDRC)
  \/ \E r \in RandomSources : Service(getDesignHealthReport_analyzeSignalIntegrity(r))
  \/ Service(getDesignHealthReport_routingBoard)
  \/ Service(getDesignHealthReport_routingStatus)
  \/ Service(getDesignHealthReport_return)

SpecService == Init /\ [][NextService]_vars

(***************************************************************************)
(* The routing views of the service (getBoardSummary, analyzeRouting) and  *)
(* getRoutingStatus, while within a budget of MaxCalls calls a board and a *)
(* net are created and a board is routed or cleared.                       *)
(***************************************************************************)
NextServiceRouting ==
  \/ Free(initialize)
  \/ \E i \in BoardInputs : Counted(createBoard(ProjectId(2), i))
  \/ Counted(createNet(BoardId(2), CHOOSE i \in NetInputs : i.name = "CLK"))
  \/ \E b \in BoardIds : Counted(clearRoutes(b, Some(<<"NET_XTAL_IN", "NET_VCC">>)))
  \/ \E b \in BoardIds : CountedService(runAutoRouting(b))
  \/ \E b \in BoardIds : Free(getRoutingStatus(b))
  \/ \E b \in BoardIds : Service(getBoardSummary(b))
  \/ Service(getBoardSummary_getRoutingStatus)
  \/ Service(getBoardSummary_return)
  \/ \E b \in BoardIds : Service(analyzeRouting(b))
  \/ Service(analyzeRouting_getRoutingStatus)
  \/ Service(analyzeRouting_return)

SpecServiceRouting == Init /\ [][NextServiceRouting]_vars

(***************************************************************************)
(* Lookups by id, while within a budget of MaxCalls calls records are      *)
(* created, updated, moved and deleted.                                    *)
(***************************************************************************)
LookupNetIds == {"NET_VCC", "NET_CLK", "NET_XTAL_IN", "NET_NONE"}

NextLookup ==
  \/ Free(initialize)
  \/ \E p \in ProjectIdInputs \cup {ProjectId(4)} : Free(getProject(p))
  \/ \E b \in BoardIdInputs : Free(getBoard(b))
  \/ \E t \in GetTargets : Free(getComponent(t[1], t[2]))
  \/ \E b \in BoardIdInputs, n \in LookupNetIds : Free(getNet(b, n))
  \/ Counted(createProject([name |-> "Test", description |-> None]))
  \/ \E p \in ProjectIdInputs, i \in ProjectUpdates : Counted(updateProject(p, i))
  \/ \E p \in ProjectIdInputs, i \in BoardInputs : Counted(createBoard(p, i))
  \/ \E b \in BoardIds, i \in BoardUpdates : Counted(updateBoard(b, i))
  \/ \E b \in BoardIds, i \in PlaceInputs : Counted(placeComponent(b, i))
  \/ \E t \in MoveTargets, i \in MoveInputs : Counted(moveComponent(t[1], t[2], i))
  \/ \E t \in DeleteTargets : Counted(deleteComponent(t[1], t[2]))
  \/ \E b \in BoardIds, i \in NetInputs : Counted(createNet(b, i))
  \/ \E b \in BoardIds, n \in {"NET_VCC", "NET_CLK"}, i \in NetUpdates :
       Counted(updateNet(b, n, i))

SpecLookup == Init /\ [][NextLookup]_vars

(***************************************************************************)
(* The list operations with filters and pages, while within a budget of    *)
(* MaxCalls calls the collections change.                                  *)
(***************************************************************************)
Pages ==
  { [limit |-> None, offset |-> None],
    [limit |-> Some(1), offset |-> Some(1)],
    [limit |-> Some(2), offset |-> Some(0)],
    [limit |-> Some(0), offset |-> None],
    [limit |-> Some(0 - 1), offset |-> None],
    [limit |-> Some(2), offset |-> Some(0 - 1)] }

NetListFilters ==
  { [priority |-> None, netClass |-> None],
    [priority |-> Some("high"), netClass |-> None],
    [priority |-> Some("high"), netClass |-> Some("high_speed")] }

NextLists ==
  \/ Free(initialize)
  \/ \E status \in {None, Some("draft")}, o \in Pages :
       Counted(listProjects([status |-> status] @@ o))
  \/ \E b \in BoardIdInputs, layer \in {None, Some("bottom")}, o \in Pages :
       Counted(listComponents(b, [layer |-> layer] @@ o))
  \/ \E b \in BoardIdInputs, f \in NetListFilters, o \in Pages :
       Counted(listNets(b, f @@ o))
  \/ Counted(createProject([name |-> "Test", description |-> None]))
  \/ \E i \in ProjectUpdates : Counted(updateProject(ProjectId(2), i))
  \/ \E i \in BoardInputs : Counted(createBoard(ProjectId(2), i))
  \/ \E b \in BoardIds, i \in PlaceInputs : Counted(placeComponent(b, i))
  \/ \E c \in {ComponentId(1), ComponentId(9)} : Counted(deleteComponent(BoardId(1), c))
  \/ \E b \in BoardIds, i \in NetInputs : Counted(createNet(b, i))

SpecLists == Init /\ [][NextLists]_vars

(***************************************************************************)
(* Projects and boards: boards with one to six layers are created on       *)
(* stored and on missing projects, within a budget of MaxCalls calls.      *)
(***************************************************************************)
LayerCounts == 1..6

LayerBoardInputs ==
  { [name |-> "Test", width |-> 100, height |-> 80, layerCount |-> n] : n \in LayerCounts }

NextBoards ==
  \/ Free(initialize)
  \/ Free(dispose)
  \/ Counted(createProject([name |-> "Test", description |-> None]))
  \/ \E p \in ProjectIdInputs, i \in ProjectUpdates : Counted(updateProject(p, i))
  \/ \E p \in ProjectIdInputs \cup {ProjectId(4)}, i \in LayerBoardInputs :
       Counted(createBoard(p, i))
  \/ \E b \in BoardIds, i \in BoardUpdates : Counted(updateBoard(b, i))

SpecBoards == Init /\ [][NextBoards]_vars

(***************************************************************************)
(* The bill of materials of the seeded and of a created board, while       *)
(* within a budget of MaxCalls calls components are placed and deleted.    *)
(***************************************************************************)
BOMModes ==
  { [groupByValue |-> g, includeUnplaced |-> None] : g \in {None, Some(TRUE), Some(FALSE)} }

NextBOM ==
  \/ Free(initialize)
  \/ \E i \in BoardInputs : Free(createBoard(ProjectId(2), i))
  \/ \E b \in BoardIds, i \in PlaceInputs : Counted(placeComponent(b, i))
  \/ \E t \in DeleteTargets : Counted(deleteComponent(t[1], t[2]))
  \/ \E b \in BoardIdInputs, o \in BOMModes : Free(exportBOM(b, o))

SpecBOM == Init /\ [][NextBOM]_vars

(***************************************************************************)
(* The live connector: made with or without a token, then called in any    *)
(* order.                                                                  *)
(***************************************************************************)
LiveConfigs ==
  { [mode |-> "live", apiToken |-> t] : t \in {None, Some(""), Some("token")} }

\* a step of the live connector, which has no part in the mock's state
Live(A) == A /\ UNCHANGED <<isInitialized, store, now, calls, last, svc>>

NextLive ==
  \/ \E c \in LiveConfigs : Live(createLiveEDAConnector(c))
  \/ Live(liveInitialize)
  \/ Live(liveDispose)
  \/ \E op \in LiveOperations : Live(liveOperation(op))

SpecLive == Init /\ [][NextLive]_vars

(***************************************************************************)
(* The reading operations of the connector and the methods of the service  *)
(* on the seeded board, while within a budget of MaxCalls calls checks and *)
(* the router run.                                                         *)
(***************************************************************************)
NextFrame ==
  \/ Free(initialize)
  \/ Counted(healthCheck)
  \/ \E o \in PageOptions : Counted(listProjects([status |-> None] @@ o))
  \/ \E p \in ProjectIdInputs : Counted(getProject(p))
  \/ \E b \in RoutingBoards : Counted(getBoard(b))
  \/ \E o \in PageOptions : Counted(listComponents(BoardId(1), [layer |-> None] @@ o))
  \/ \E c \in {ComponentId(1), ComponentId(9)} : Counted(getComponent(BoardId(1), c))
  \/ \E o \in PageOptions :
       Counted(listNets(BoardId(1), [priority |-> None, netClass |-> None] @@ o))
  \/ \E n \in {"NET_VCC", "NET_CLK"} : Counted(getNet(BoardId(1), n))
  \/ \E b \in RoutingBoards, o \in ViolationFilters : Counted(getDRCViolations(b, o))
  \/ \E b \in RoutingBoards : Counted(getRoutingStatus(b))
  \/ \E r \in RandomSources : Counted(analyzeSignalIntegrity(BoardId(1), None, r))
  \/ \E o \in GerberOptions, r \in RandomSources : Counted(exportGerber(BoardId(1), o, r))
  \/ \E o \in BOMOptions : Counted(exportBOM(BoardId(1), o))
  \/ Counted(runDRC(BoardId(1)))
  \/ Counted(runAutoRouter(BoardId(1)))
  \/ \E b \in RoutingBoards : Service(getBoardSummary(b))
  \/ Service(getBoardSummary_getRoutingStatus)
  \/ Service(getBoardSummary_return)
  \/ \E b \in RoutingBoards : Service(analyzeComponentPlacement(b))
  \/ Service(analyzeComponentPlacement_return)
  \/ \E b \in RoutingBoards : Service(analyzeRouting(b))
  \/ Service(analyzeRouting_getRoutingStatus)
  \/ Service(analyzeRouting_return)
  \/ \E b \in RoutingBoards, r \in RandomSources : Service(exportManufacturingFiles(b, r))
  \/ Service(exportManufacturingFiles_exportBOM)
  \/ \E b \in RoutingBoards : Service(getDesignHealthReport(b))
  \/ Service(getDesignHealthReport_summaryStatus)
  \/ Service(getDesignHealthReport_summaryReturn)
  \/ Service(getDesignHealthReport_runDRC)
  \/ \E r \in RandomSources : Service(getDesignHealthReport_analyzeSignalIntegrity(r))
  \/ Service(getDesignHealthReport_routingBoard)
  \/ Service(getDesignHealthReport_routingStatus)
  \/ Service(getDesignHealthReport_return)

SpecFrame == Init /\ [][NextFrame]_vars

(***************************************************************************)
(* Placement analysis: the connector starts after up to MaxPlaced          *)
(* components were placed on the seeded board; then small boards are       *)
(* created and filled, components are deleted, and the analysis runs.      *)
(***************************************************************************)
PartInputs ==
  { [name |-> "Regulator", designator |-> "U9", package |-> "SOIC",
     value |-> None, position |-> [x |-> 0, y |-> 0],
     rotation |-> None, layer |-> None, partNumber |-> None],
    [name |-> "Sensor", designator |-> "U8", package |-> "QFN",
     value |-> None, position |-> [x |-> 5, y |-> 5],
     rotation |-> None, layer |-> Some("top"), partNumber |-> None],
    [name |-> "Array", designator |-> "X7", package |-> "BGA",
     value |-> None, position |-> [x |-> 5, y |-> 0],
     rotation |-> None, layer |-> Some("bottom"), partNumber |-> None] }

MaxPlaced == 3

\* the sequences of up to MaxPlaced parts
PartSequences == UNION { [1..n -> PartInputs] : n \in 0..MaxPlaced }

RECURSIVE PlacedOn(_, _)
\* the board after placeComponent with each of the inputs in turn
PlacedOn(board, inputs) ==
  IF inputs = <<>> THEN board
  ELSE PlacedOn(WithComponent(board, NewComponent(board, Head(inputs))), Tail(inputs))

SmallBoardInputs ==
  { [name |-> "Tiny", width |-> 10, height |-> 8, layerCount |-> 2] }

InitPlacement ==
  /\ isInitialized = TRUE
  /\ projects = SeedProjects
  /\ now = 0
  /\ \E inputs \in PartSequences :
       boards = Put(EmptyMap, SeedBoard.id, PlacedOn(SeedBoard, inputs))
  /\ drcResults = EmptyMap
  /\ routingResults = EmptyMap
  /\ calls = 0
  /\ last = Call("initialize", <<>>, Success(None))
  /\ svc = Idle
  /\ live = NoLive

NextPlacement ==
  \/ \E i \in SmallBoardInputs : Counted(createBoard(ProjectId(2), i))
  \/ \E i \in PartInputs : Counted(placeComponent(BoardId(2), i))
  \/ \E c \in {ComponentId(1), ComponentId(2)} : Counted(deleteComponent(BoardId(1), c))
  \/ \E b \in BoardIdInputs : Service(analyzeComponentPlacement(b))
  \/ Service(analyzeComponentPlacement_return)

SpecPlacement == InitPlacement /\ [][NextPlacement]_vars

(***************************************************************************)
(* Every operation of the connector and the passing of time, within a      *)
(* budget of MaxCalls steps other than initialize, dispose and             *)
(* healthCheck.                                                            *)
(***************************************************************************)
Next ==
  \/ Free(initialize)
  \/ Free(dispose)
  \/ Free(healthCheck)
  \/ Counted(Tick)
  \/ \E o \in PageOptions : Counted(listProjects([status |-> None] @@ o))
  \/ Counted(listProjects([status |-> Some("draft"), limit |-> None, offset |-> None]))
  \/ \E p \in ProjectIdInputs : Counted(getProject(p))
  \/ Counted(createProject([name |-> "Test", description |-> None]))
  \/ \E p \in ProjectIdInputs, i \in ProjectUpdates : Counted(updateProject(p, i))
  \/ \E b \in BoardIds : Counted(getBoard(b))
  \/ \E p \in ProjectIdInputs, i \in BoardInputs : Counted(createBoard(p, i))
  \/ \E b \in BoardIds, i \in BoardUpdates : Counted(updateBoard(b, i))
  \/ \E b \in BoardIds, o \in PageOptions :
       Counted(listComponents(b, [layer |-> None] @@ o))
  \/ \E t \in GetTargets : Counted(getComponent(t[1], t[2]))
  \/ \E b \in BoardIds, i \in PlaceInputs : Counted(placeComponent(b, i))
  \/ \E t \in MoveTargets, i \in MoveInputs : Counted(moveComponent(t[1], t[2], i))
  \/ \E t \in DeleteTargets : Counted(deleteComponent(t[1], t[2]))
  \/ \E b \in BoardIds, o \in PageOptions :
       Counted(listNets(b, [priority |-> None, netClass |-> None] @@ o))
  \/ \E b \in BoardIds, n \in {"NET_VCC", "NET_CLK"} : Counted(getNet(b, n))
  \/ \E b \in BoardIds, i \in NetInputs : Counted(createNet(b, i))
  \/ \E b \in BoardIds, n \in {"NET_VCC", "NET_CLK"}, i \in NetUpdates :
       Counted(updateNet(b, n, i))
  \/ \E b \in BoardIds : Counted(runDRC(b))
  \/ \E b \in BoardIds, o \in ViolationFilters : Counted(getDRCViolations(b, o))
  \/ \E b \in BoardIds, r \in {"DRC001", "DRC999"}, i \in RuleUpdates :
       Counted(updateDRCRule(b, r, i))
  \/ \E b \in BoardIds : Counted(runAutoRouter(b))
  \/ \E b \in BoardIds : Counted(getRoutingStatus(b))
  \/ \E b \in BoardIds, f \in NetFilters : Counted(clearRoutes(b, f))
  \/ \E b \in BoardIds, n \in {None, Some(<<"NET_USB_DP", "NET_SIG1">>)},
        r \in RandomSources : Counted(analyzeSignalIntegrity(b, n, r))
  \/ \E b \in BoardIds, o \in GerberOptions, r \in RandomSources :
       Counted(exportGerber(b, o, r))
  \/ \E b \in BoardIds, o \in BOMOptions : Counted(exportBOM(b, o))

Spec == Init /\ [][Next]_vars


(***************************************************************************)
(* Signal integrity of the seeded board and of nets that gained or lost a  *)
(* target or a partner, for draws around the thresholds.                   *)
(***************************************************************************)
SignalSources ==
  { <<0>>, <<600>>, <<601>>, <<666>>, <<667>>, <<999>>, <<400, 700, 0>>,
    <<999, 999, 999, 0, 0>> }

SignalUpdates ==
  { [name |-> None, priority |-> None, impedanceTarget |-> None, maxLength |-> None,
     diffPair |-> Some("NET_GND")],
    [name |-> None, priority |-> None, impedanceTarget |-> Some(75), maxLength |-> None,
     diffPair |-> None],
    [name |-> None, priority |-> None, impedanceTarget |-> None, maxLength |-> None,
     diffPair |-> Some("")] }

SignalNetIds == { None, Some(<<"NET_USB_DP", "NET_SIG1">>), Some(<<"NET_CLK", "NET_XTAL_IN">>) }

NextSignal ==
  \/ Free(initialize)
  \/ \E n \in {"NET_XTAL_IN", "NET_USB_DP"}, i \in SignalUpdates :
       Counted(updateNet(BoardId(1), n, i))
  \/ \E i \in NetInputs : Counted(createNet(BoardId(1), i))
  \/ \E b \in BoardIdInputs, n \in SignalNetIds, r \in SignalSources :
       Counted(analyzeSignalIntegrity(b, n, r))

SpecSignal == Init /\ [][NextSignal]_vars
(***************************************************************************)
(* Properties.                                                             *)
(***************************************************************************)
\* this step is a call of op (every operation records its call; only Tick
\* leaves the record alone, and Tick moves the clock)
Called(op) == last'.op = op /\ now' = now

Components(boardId) == boards[boardId].components

\* the operations that check _isInitialized
DataOperations ==
  { "listProjects", "getProject", "createProject", "updateProject",
    "getBoard", "createBoard", "updateBoard",
    "listComponents", "getComponent", "placeComponent", "moveComponent",
    "deleteComponent", "listNets", "getNet", "createNet", "updateNet",
    "runDRC", "getDRCViolations", "updateDRCRule",
    "runAutoRouter", "getRoutingStatus", "clearRoutes",
    "analyzeSignalIntegrity", "exportGerber", "exportBOM" }

NoFilter == [severity |-> None, ruleType |-> None]

\* C1: every operation other than initialize and healthCheck, called on an
\* uninitialized connector, returns the failure NOT_INITIALIZED.
C1_UninitializedCallsFail ==
  (~isInitialized /\ last.op \in DataOperations) => Code(last) = "NOT_INITIALIZED"

\* after a dispose, getRoutingStatus is refused for a board whose routing
\* result is stored
C1_Witness ==
  /\ ~isInitialized
  /\ last.op = "getRoutingStatus" /\ Code(last) = "NOT_INITIALIZED"
  /\ last.args[1] \in DOMAIN routingResults

\* C2: dispose and initialize change nothing but the initialized flag, and
\* after an initialize the stored DRC and routing results are what
\* getDRCViolations and getRoutingStatus return.
C2_DisposeKeepsTheStore ==
  [][/\ Called("dispose") => (store' = store /\ ~isInitialized')
     /\ Called("initialize") =>
          /\ store' = store /\ isInitialized'
          /\ \A b \in DOMAIN drcResults :
               GetDRCViolationsRet(b, NoFilter)' = Success(drcResults[b].violations)
          /\ \A b \in DOMAIN routingResults :
               /\ GetRoutingStatusRet(b)'.success
               /\ GetRoutingStatusRet(b)'.data.completionRate
                    = routingResults[b].completionRate]_vars

\* the connector was disposed with a DRC result and a routing result stored
C2_Witness ==
  /\ last.op = "dispose" /\ ~isInitialized
  /\ BoardId(1) \in DOMAIN drcResults
  /\ BoardId(1) \in DOMAIN routingResults

HasDuplicateComponentId(boardId) ==
  \E i, j \in DOMAIN Components(boardId) :
    i /= j /\ Components(boardId)[i].id = Components(boardId)[j].id

\* C3: immediately after a deleteComponent(boardId, id) that returned
\* success, getComponent(boardId, id) returns NOT_FOUND.
C3_GetAfterDeleteIsNotFound ==
  [][(/\ last.op = "deleteComponent" /\ last.ret.success
      /\ Called("getComponent") /\ last'.args = last.args)
     => Code(last') = "NOT_FOUND"]_vars

\* C4: no two components of the same board have the same id.
C4_ComponentIdsUnique ==
  \A b \in DOMAIN boards : ~HasDuplicateComponentId(b)

LockedComponents(boardId) ==
  SelectSeq(Components(boardId), LAMBDA c : c.locked)

\* C6: moveComponent with the id of a locked component returns
\* VALIDATION_ERROR and changes nothing in the store; and in every step the
\* locked components of a board stay as they are, field by field and in
\* order, except for the one a successful deleteComponent removes.
C6_LockedComponentNeverMoves ==
  [][/\ \A b \in DOMAIN boards :
          (/\ Called("moveComponent") /\ isInitialized /\ last'.args[1] = b
           /\ \E c \in Range(Components(b)) : c.id = last'.args[2] /\ c.locked)
          => (Code(last') = "VALIDATION_ERROR" /\ store' = store)
     /\ \A b \in DOMAIN boards :
          \/ LockedComponents(b)' = LockedComponents(b)
          \/ /\ Called("deleteComponent") /\ last'.ret.success /\ last'.args[1] = b
             /\ \E i \in DOMAIN LockedComponents(b) :
                  /\ LockedComponents(b)[i].id = last'.args[2]
                  /\ LockedComponents(b)' = RemoveAt(LockedComponents(b), i)]_vars

\* a move with a new position was refused on a locked component that shares
\* the board with components that were moved, deleted or placed
C6_Witness ==
  /\ last.op = "moveComponent" /\ Code(last) = "VALIDATION_ERROR"
  /\ IsSome(last.args[3].position)
  /\ Components(BoardId(1)) /= SeedComponents
  /\ \E c \in Range(Components(BoardId(1))) :
       c.id = last.args[2] /\ c.locked /\ c.position /= Get(last.args[3].position)

\* C7: moveComponent with the id of an existing unlocked component succeeds;
\* that component is returned and stored with exactly the supplied fields
\* replaced, and no other component of the board changes.
C7_MoveUnlockedMergesSuppliedFields ==
  [][\A b \in DOMAIN boards :
       (/\ Called("moveComponent") /\ isInitialized /\ last'.args[1] = b
        /\ \E c \in Range(Components(b)) : c.id = last'.args[2] /\ ~c.locked)
       => /\ last'.ret.success
          /\ DOMAIN Components(b)' = DOMAIN Components(b)
          /\ \A i \in DOMAIN Components(b) :
               LET old == Components(b)[i]
                   new == Components(b)'[i]
               IN  IF old.id = last'.args[2] /\ ~old.locked
                     THEN /\ new = MoveMerge(old, last'.args[3])
                          /\ last'.ret.data = new
                     ELSE new = old]_vars

NetIds(boardId) == {n.id : n \in Range(boards[boardId].nets)}

\* C5: every trace and every via of a board has the id of a net of that board.
C5_RoutesReferenceNetsOfTheBoard ==
  \A b \in DOMAIN boards :
    /\ \A t \in Range(boards[b].traces) : t.netId \in NetIds(b)
    /\ \A v \in Range(boards[b].vias) : v.netId \in NetIds(b)

\* C8: getDRCViolations without filter returns NOT_FOUND while the board has
\* no stored result and the violations of the stored result otherwise; a
\* board has no stored result at first, and the stored result of a board
\* changes exactly in a successful runDRC of that board, to the result that
\* run returned.
C8_ViolationsOfTheLatestRun ==
  /\ \A b \in BoardIdInputs : b \notin DOMAIN drcResults
  /\ [](\A b \in BoardIdInputs :
          (last.op = "getDRCViolations" /\ last.args = <<b, NoFilter>> /\ isInitialized)
          => IF b \in DOMAIN drcResults
               THEN last.ret = Success(drcResults[b].violations)
               ELSE Code(last) = "NOT_FOUND")
  /\ [][\A b \in BoardIdInputs :
          IF Called("runDRC") /\ last'.ret.success /\ last'.args = <<b>>
            THEN /\ b \in DOMAIN drcResults'
                 /\ drcResults'[b] = last'.ret.data
                 /\ last'.ret.data.runAt = now
            ELSE /\ (b \in DOMAIN drcResults') = (b \in DOMAIN drcResults)
                 /\ b \in DOMAIN drcResults => drcResults'[b] = drcResults[b]]_vars

\* the violations of a second, later run on the seeded board are returned
\* while the created board has had no run
C8_Witness ==
  /\ last.op = "getDRCViolations" /\ last.args = <<BoardId(1), NoFilter>>
  /\ last.ret = Success(MockViolations)
  /\ drcResults[BoardId(1)].runAt > 0
  /\ BoardId(2) \in DOMAIN boards /\ BoardId(2) \notin DOMAIN drcResults

\* what a clearRoutes(boardId, netIds) step did to a list of routes when it
\* removed exactly the routes whose net is in netIds
RemovedExactly(before, after, netIds) ==
  after = SelectSeq(before, LAMBDA r : r.netId \notin Range(netIds))

\* C9 as stated: without filter both lists are emptied; with a filter list,
\* the empty one included, exactly the routes of the listed nets are removed.
C9_ClearRoutesEveryFilter ==
  [][\A b \in DOMAIN boards :
       (Called("clearRoutes") /\ last'.ret.success /\ last'.args[1] = b)
       => LET netIds == last'.args[2]
          IN  IF IsSome(netIds)
                THEN /\ RemovedExactly(boards[b].traces, boards'[b].traces, Get(netIds))
                     /\ RemovedExactly(boards[b].vias, boards'[b].vias, Get(netIds))
                ELSE boards'[b].traces = <<>> /\ boards'[b].vias = <<>>]_vars

\* C9 amended: without filter, or with an empty filter list, both lists are
\* emptied; with a non-empty filter list exactly the routes of the listed
\* nets are removed and the others stay, unchanged and in order.
C9_ClearRoutesNonEmptyFilter ==
  [][\A b \in DOMAIN boards :
       (Called("clearRoutes") /\ last'.ret.success /\ last'.args[1] = b)
       => LET netIds == last'.args[2]
          IN  IF IsSome(netIds) /\ Get(netIds) /= <<>>
                THEN /\ RemovedExactly(boards[b].traces, boards'[b].traces, Get(netIds))
                     /\ RemovedExactly(boards[b].vias, boards'[b].vias, Get(netIds))
                ELSE boards'[b].traces = <<>> /\ boards'[b].vias = <<>>]_vars

\* a filtered clearRoutes removed some routes and kept others
C9_Witness ==
  /\ last.op = "clearRoutes" /\ last.ret.success
  /\ last.args = <<BoardId(1), Some(<<"NET_XTAL_IN", "NET_VCC">>)>>
  /\ Len(boards[BoardId(1)].traces) = Len(SeedTraces)
  /\ Len(boards[BoardId(1)].vias) = 2

RateEq(a, b) == a.den /= 0 /\ b.den /= 0 /\ a.num * b.den = b.num * a.den

\* C10: getRoutingStatus returns the completionRate and unroutedNets of the
\* stored routing result while one is stored; a result is stored from a
\* successful runAutoRouter until the next successful clearRoutes of the board;
\* with none stored, it returns 100 * (nets with a trace) / (nets) and the
\* nets without trace.
C10_RoutingStatus ==
  /\ [](\A b \in DOMAIN boards :
          (last.op = "getRoutingStatus" /\ last.args = <<b>> /\ isInitialized)
          => IF b \in DOMAIN routingResults
               THEN /\ last.ret.success
                    /\ last.ret.data.completionRate = routingResults[b].completionRate
                    /\ last.ret.data.unroutedNets = routingResults[b].unroutedNets
               ELSE /\ last.ret.success
                    /\ Len(boards[b].nets) > 0 =>
                         RateEq(last.ret.data.completionRate,
                                Rate(100 * Cardinality(NetIds(b) \cap RoutedNets(boards[b])),
                                     Len(boards[b].nets)))
                    /\ Range(last.ret.data.unroutedNets) = NetIds(b) \ RoutedNets(boards[b]))
  /\ [][\A b \in DOMAIN boards :
          IF Called("runAutoRouter") /\ last'.ret.success /\ last'.args = <<b>>
            THEN b \in DOMAIN routingResults' /\ routingResults'[b] = last'.ret.data
          ELSE IF Called("clearRoutes") /\ last'.ret.success /\ last'.args[1] = b
            THEN b \notin DOMAIN routingResults'
          ELSE /\ (b \in DOMAIN routingResults') = (b \in DOMAIN routingResults)
               /\ b \in DOMAIN routingResults => routingResults'[b] = routingResults[b]]_vars

RateLess(a, b) == a.den > 0 /\ b.den > 0 /\ a.num * b.den < b.num * a.den

\* C11: on the seeded board in its initial state, runAutoRouter returns a
\* completionRate strictly greater than the one getRoutingStatus reports just
\* before the run; the board's traces become the previous traces followed by
\* the new traces, equal to the traces of the returned result, which is the
\* stored routing result; and the same for the vias.
C11_AutoRouterOnSeededBoard ==
  [][(/\ Called("runAutoRouter") /\ last'.args = <<BoardId(1)>> /\ isInitialized
      /\ boards[BoardId(1)] = SeedBoard /\ BoardId(1) \notin DOMAIN routingResults)
     => LET before == boards[BoardId(1)]
            after == boards'[BoardId(1)]
            result == last'.ret.data
        IN  /\ last'.ret.success
            /\ GetRoutingStatusRet(BoardId(1)).success
            /\ RateLess(GetRoutingStatusRet(BoardId(1)).data.completionRate,
                        result.completionRate)
            /\ after.traces = before.traces \o NewTraces
            /\ Len(after.traces) = Len(before.traces) + Len(NewTraces)
            /\ after.traces = result.traces
            /\ after.vias = before.vias \o NewVias
            /\ Len(after.vias) = Len(before.vias) + Len(NewVias)
            /\ after.vias = result.vias
            /\ routingResults'[BoardId(1)] = result]_vars

\* the router has run on the seeded board that no operation had changed
C11_Witness ==
  /\ last.op = "runAutoRouter" /\ last.args = <<BoardId(1)>> /\ last.ret.success
  /\ boards[BoardId(1)] = [SeedBoard EXCEPT !.traces = SeedTraces \o NewTraces,
                                            !.vias = SeedVias \o NewVias,
                                            !.updatedAt = now + 2500]
  /\ routingResults[BoardId(1)].traces = SeedTraces \o NewTraces

\* a completion rate that is a number from 0 to 100
IsPercentage(rate) == rate.den > 0 /\ 0 <= rate.num /\ rate.num <= 100 * rate.den

Returned(method) == svc.method = method /\ svc.pc = "done"

\* C12: the completion percentage that getRoutingStatus, getBoardSummary
\* (routingCompletion) and analyzeRouting (completionRate) return for an
\* existing board is a number between 0 and 100 inclusive.
C12_CompletionIsAPercentage ==
  /\ (last.op = "getRoutingStatus" /\ last.ret.success)
       => IsPercentage(last.ret.data.completionRate)
  /\ (Returned("getBoardSummary") /\ Get(svc.ret).success)
       => IsPercentage(Get(svc.ret).data.routingCompletion)
  /\ (Returned("analyzeRouting") /\ Get(svc.ret).success)
       => IsPercentage(Get(svc.ret).data.completionRate)

\* C13: getDesignHealthReport returns a failure only when the board lookup of
\* its first step fails; once that has succeeded it returns success, with
\* routing completion 0 in the summary when getRoutingStatus failed, with
\* passed = false, 0 errors, 0 warnings and no violations when runDRC failed,
\* with 0 nets analysed when analyzeSignalIntegrity failed, and with the
\* empty routing analysis of completionRate 0 when analyzeRouting failed.
C13_HealthReportFallsBack ==
  /\ [](Returned("getDesignHealthReport") =>
          IF svc.acc = <<>>
            THEN /\ ~Get(svc.ret).success
                 /\ Get(svc.ret).error.code \in {"NOT_INITIALIZED", "NOT_FOUND"}
            ELSE LET report == Get(svc.ret).data
                     drcResult == svc.acc[2]
                     siResult == svc.acc[3]
                     routingResult == svc.acc[4]
                 IN  /\ Get(svc.ret).success
                     /\ report.board = svc.acc[1]
                     /\ ~drcResult.success =>
                          report.drc = [passed |-> FALSE, errorCount |-> 0,
                                        warningCount |-> 0, criticalViolations |-> <<>>]
                     /\ ~siResult.success =>
                          report.signalIntegrity =
                            [analyzed |-> 0, passed |-> 0, failed |-> 0, issues |-> <<>>]
                     /\ ~routingResult.success =>
                          /\ report.routing.completionRate = Rate(0, 1)
                          /\ report.routing.totalTraceLength = 0
                          /\ report.routing.viaCount = 0
                          /\ DOMAIN report.routing.layerUtilization = {}
                          /\ report.routing.unroutedNets = <<>>
                          /\ report.routing.criticalNets = <<>>)
  /\ [][(At("getDesignHealthReport", "summary.return") /\ svc' /= svc)
         => /\ svc'.pc = "runDRC"
            /\ ~svc.acc[1].success => svc'.acc[1].routingCompletion = Rate(0, 1)]_vars
  /\ [][(svc.method = "getDesignHealthReport" /\ svc.pc \notin {"done", "idle"}
           /\ svc' /= svc /\ svc'.pc = "done")
         => Get(svc'.ret).success]_vars

\* a report was returned although the connector was disposed after the board
\* lookup, so that getRoutingStatus, runDRC, analyzeSignalIntegrity and
\* analyzeRouting all failed
C13_Witness ==
  /\ Returned("getDesignHealthReport") /\ Get(svc.ret).success
  /\ Get(svc.ret).data.board.routingCompletion = Rate(0, 1)
  /\ ~svc.acc[2].success /\ ~svc.acc[3].success /\ ~svc.acc[4].success
  /\ Code(last) = "NOT_INITIALIZED"

ServiceMethods ==
  { "getBoardSummary", "analyzeComponentPlacement", "analyzeRouting",
    "runDesignRuleCheck", "runAutoRouting", "analyzeSignalIntegrity",
    "getDesignHealthReport", "exportManufacturingFiles" }

\* a step in which a method of the service is called
FirstCall(method) ==
  CASE method = "runDesignRuleCheck" -> "runDRC"
    [] method = "runAutoRouting" -> "runAutoRouter"
    [] method = "analyzeSignalIntegrity" -> "analyzeSignalIntegrity"
    [] method = "exportManufacturingFiles" -> "exportGerber"
    [] OTHER -> "getBoard"

\* a step in which a service method is called and makes its first connector call
ServiceCalled ==
  /\ CanStart
  /\ svc'.method \in ServiceMethods
  /\ Called(FirstCall(svc'.method))

\* C14: a service method whose first connector call fails returns a failure
\* with exactly the code and message the connector returned: NOT_INITIALIZED
\* on an uninitialized connector, NOT_FOUND for a board that is not stored.
C14_FirstFailureIsPropagated ==
  [][ServiceCalled =>
       /\ svc'.method \in ServiceMethods
       /\ last'.args[1] = svc'.boardId
       /\ ~last'.ret.success =>
            /\ svc'.pc = "done"
            /\ Get(svc'.ret) = [success |-> FALSE, error |-> last'.ret.error]
       /\ ~isInitialized =>
            svc'.pc = "done" /\ Get(svc'.ret) = NotInitialized
       /\ (isInitialized /\ svc'.boardId \notin DOMAIN boards) =>
            svc'.pc = "done" /\ Get(svc'.ret) = BoardNotFound(svc'.boardId)]_vars

\* the health report of a board that is not stored was refused on an
\* initialized connector with the connector's NOT_FOUND
C14_Witness ==
  /\ Returned("getDesignHealthReport") /\ isInitialized
  /\ svc.boardId \notin DOMAIN boards
  /\ Get(svc.ret) = last.ret /\ Code(last) = "NOT_FOUND"

SameError(ret, result) ==
  /\ ~ret.success
  /\ ret.error.code = result.error.code
  /\ ret.error.message = result.error.message

\* C15: exportManufacturingFiles calls exportGerber first and exportBOM only
\* after exportGerber succeeded; a Gerber failure is returned without any
\* exportBOM call, a BOM failure is returned, and success carries both results.
C15_GerberThenBOM ==
  /\ [][/\ (CanStart /\ svc'.method = "exportManufacturingFiles"
                     /\ Called(FirstCall(svc'.method)))
             => /\ last'.op = "exportGerber"
                /\ svc'.acc = <<last'.ret>>
                /\ last'.ret.success => svc'.pc = "exportBOM"
                /\ ~last'.ret.success
                     => svc'.pc = "done" /\ SameError(Get(svc'.ret), last'.ret)
        /\ Called("exportBOM")
             => /\ At("exportManufacturingFiles", "exportBOM")
                /\ svc.acc[1].success
                /\ svc'.pc = "done"
                /\ svc'.acc = <<svc.acc[1], last'.ret>>
        /\ (svc.method = "exportManufacturingFiles" /\ svc.pc = "exportBOM"
                                                   /\ svc'.pc = "done")
             => Called("exportBOM")]_vars
  /\ [](Returned("exportManufacturingFiles") /\ Len(svc.acc) = 2
         => /\ svc.acc[1].success
            /\ Get(svc.ret).success = svc.acc[2].success
            /\ svc.acc[2].success
                 => Get(svc.ret).data = [gerber |-> svc.acc[1].data,
                                         bom |-> svc.acc[2].data]
            /\ ~svc.acc[2].success => SameError(Get(svc.ret), svc.acc[2]))

\* exportBOM failed after exportGerber had succeeded
C15_Witness ==
  /\ Returned("exportManufacturingFiles") /\ Len(svc.acc) = 2
  /\ svc.acc[1].success /\ ~svc.acc[2].success
  /\ ~Get(svc.ret).success /\ last.op = "exportBOM"

\* the records of a list that carry the id
StoredUnder(list, id) == {r \in Range(list) : r.id = id}

\* the call returned NOT_FOUND when none is stored, else the one stored record
ReturnsStored(call, stored) ==
  IF stored = {} THEN Code(call) = "NOT_FOUND"
  ELSE call.ret.success /\ stored = {call.ret.data}

\* C16: on an initialized connector getProject, getBoard, getComponent and
\* getNet return NOT_FOUND for an id (or board id) that is not stored, and
\* otherwise succeed with the record stored under the id.
C16_GettersReturnStoredRecord ==
  isInitialized =>
    /\ last.op = "getProject" => ReturnsStored(last, StoredUnder(projects, last.args[1]))
    /\ last.op = "getBoard" =>
         ReturnsStored(last, IF last.args[1] \in DOMAIN boards
                               THEN {boards[last.args[1]]} ELSE {})
    /\ last.op = "getComponent" =>
         ReturnsStored(last, IF last.args[1] \in DOMAIN boards
                               THEN StoredUnder(Components(last.args[1]), last.args[2])
                               ELSE {})
    /\ last.op = "getNet" =>
         ReturnsStored(last, IF last.args[1] \in DOMAIN boards
                               THEN StoredUnder(boards[last.args[1]].nets, last.args[2])
                               ELSE {})

\* the items of s at the (0-based) positions offset .. offset + n - 1
Interval(s, offset, n) ==
  SubSeq(s, IF offset < 0 THEN 1 ELSE offset + 1, Min(offset + n, Len(s)))

OrElse(opt, default) == IF IsSome(opt) THEN Get(opt) ELSE default

\* the page items of an answer are at most n, are the interval of filtered
\* that starts at the offset, and total counts filtered
IsPage(items, total, filtered, options, defaultLimit) ==
  LET n == OrElse(options.limit, defaultLimit)
  IN  /\ Len(items) <= n
      /\ items = Interval(filtered, OrElse(options.offset, 0), n)
      /\ total = Len(filtered)

Matching(list, field, opt) ==
  IF IsSome(opt) THEN SelectSeq(list, LAMBDA r : r[field] = Get(opt)) ELSE list

\* C17: listProjects, listComponents and listNets return at most limit items,
\* the interval [offset, offset + limit) of the filtered collection in stored
\* order, and total is the filtered count; the default limit is 25 for
\* projects and 100 for components and nets.
C17_ListsReturnThePage ==
  /\ (last.op = "listProjects" /\ last.ret.success) =>
       LET o == last.args[1]
       IN  IsPage(last.ret.data.projects, last.ret.data.total,
                  Matching(projects, "status", o.status), o, 25)
  /\ (last.op = "listComponents" /\ last.ret.success) =>
       LET o == last.args[2]
       IN  IsPage(last.ret.data.components, last.ret.data.total,
                  Matching(Components(last.args[1]), "layer", o.layer), o, 100)
  /\ (last.op = "listNets" /\ last.ret.success) =>
       LET o == last.args[2]
       IN  IsPage(last.ret.data.nets, last.ret.data.total,
                  Matching(Matching(boards[last.args[1]].nets, "priority", o.priority),
                           "netClass", o.netClass), o, 100)

\* the last call was a createBoard that returned a board
BoardCreated == last.op = "createBoard" /\ last.ret.success

\* order values 1..n, and the planes: only when n >= 4, layer 2 is ground and
\* layer n - 1 is power; every other layer is signal
OrdersAndTypes(layers, n) ==
  /\ Len(layers) = n
  /\ \A i \in 1..n :
       /\ layers[i].order = i
       /\ layers[i].type = IF n >= 4 /\ i = 2 THEN "ground"
                           ELSE IF n >= 4 /\ i = n - 1 THEN "power"
                           ELSE "signal"

\* C18 as stated: createBoard with layerCount n >= 1 returns n layers with
\* order 1..n, the first named Top and the last named Bottom, all signal but
\* for the ground and power planes of a stack of four or more.
C18_LayerStack ==
  BoardCreated =>
    LET n == last.args[2].layerCount
        layers == last.ret.data.layers
    IN  n >= 1 => /\ OrdersAndTypes(layers, n)
                  /\ layers[1].name = "Top"
                  /\ layers[n].name = "Bottom"

\* C18 amended: as stated, but the last layer is named Bottom only when
\* n >= 2 (a single layer is named Top), the layers between are named
\* Inner1, Inner2, ..., and the board is stored with these layers.
C18_LayerStackFromTwo ==
  BoardCreated =>
    LET n == last.args[2].layerCount
        layers == last.ret.data.layers
    IN  n >= 1 => /\ OrdersAndTypes(layers, n)
                  /\ layers[1].name = "Top"
                  /\ n >= 2 => layers[n].name = "Bottom"
                  /\ \A i \in 2..(n - 1) : layers[i].name = "Inner" \o NumToString(i - 1)
                  /\ n = 4 => /\ layers[2].type = "ground"
                              /\ layers[3].type = "power"
                  /\ boards[last.ret.data.id].layers = layers

\* a board of six layers was created: planes at 2 and 5, signal between
C18_Witness ==
  /\ BoardCreated /\ last.args[2].layerCount = 6
  /\ last.ret.data.layers[2].type = "ground"
  /\ last.ret.data.layers[5].type = "power"
  /\ last.ret.data.layers[3].type = "signal"

\* how often the id is an entry of the list
Occurrences(list, id) == Cardinality({i \in DOMAIN list : list[i].id = id})

\* C19: createBoard on a project that does not exist returns NOT_FOUND and
\* stores no board; each stored board is listed exactly once by the project
\* its projectId names and by no other project, and every entry of a
\* project's boards list is the id of a stored board.
C19_BoardsBelongToOneProject ==
  /\ [][(Called("createBoard") /\ isInitialized
           /\ StoredUnder(projects, last'.args[1]) = {})
         => (Code(last') = "NOT_FOUND" /\ boards' = boards /\ projects' = projects)]_vars
  /\ [](/\ \A b \in DOMAIN boards :
              \A i \in DOMAIN projects :
                Occurrences(projects[i].boards, b)
                  = IF projects[i].id = boards[b].projectId THEN 1 ELSE 0
        /\ \A b \in DOMAIN boards :
              Cardinality({i \in DOMAIN projects : projects[i].id = boards[b].projectId}) = 1
        /\ \A i \in DOMAIN projects :
              \A k \in DOMAIN projects[i].boards :
                projects[i].boards[k].id \in DOMAIN boards)

\* a board was created on a project made by createProject
C19_Witness ==
  /\ BoardCreated /\ last.args[1] = ProjectId(4)
  /\ Cardinality(DOMAIN boards) = 2
  /\ \E i \in DOMAIN projects :
       projects[i].id = ProjectId(4) /\ Len(projects[i].boards) = 1

\* the last call was an exportBOM that returned a bill of materials
BOMExported == last.op = "exportBOM" /\ last.ret.success

\* C20: exportBOM with groupByValue true (also by default) returns no more
\* entries than totalComponents, and in both modes totalComponents is the
\* number of components on the board.
C20_BOMCountsComponents ==
  BOMExported =>
    LET bom == last.ret.data
    IN  /\ bom.totalComponents = Len(Components(last.args[1]))
        /\ OrElse(last.args[2].groupByValue, TRUE)
             => Len(bom.entries) <= bom.totalComponents

\* two components placed on a created board were grouped into one entry
C20_Witness ==
  /\ BOMExported /\ last.args[1] = BoardId(2)
  /\ last.args[2].groupByValue = Some(TRUE)
  /\ last.ret.data.totalComponents = 2
  /\ Len(last.ret.data.entries) = 1

LiveLast == Get(live.last)

\* C21: on the live connector initialize() without a token returns
\* AUTH_REQUIRED and leaves isInitialized false, with a token it succeeds and
\* sets isInitialized; every data operation returns NOT_IMPLEMENTED whether
\* or not the connector is initialized, and never succeeds.
C21_LiveConnectorIsAStub ==
  [][(LiveCreated /\ live' /= live) =>
       LET token == Get(live.config).apiToken
           call == Get(live'.last)
       IN  /\ call.op = "initialize" =>
                IF token \in {None, Some("")}
                  THEN /\ Code(call) = "AUTH_REQUIRED"
                       /\ live'.isInitialized = live.isInitialized
                       /\ Get(live.last).op = "constructor" => ~live'.isInitialized
                  ELSE call.ret.success /\ live'.isInitialized
           /\ call.op \in LiveOperations \ {"healthCheck"} =>
                /\ Code(call) = "NOT_IMPLEMENTED"
                /\ live'.isInitialized = live.isInitialized]_vars

\* a data operation of an initialized live connector was refused
C21_Witness ==
  /\ LiveCreated /\ live.isInitialized
  /\ LiveLast.op = "getBoard" /\ Code(LiveLast) = "NOT_IMPLEMENTED"

\* the ids of the nets that have a trace on the board
TracedNets(board) == {t.netId : t \in Range(board.traces)}

\* C22: every trace that runAutoRouter appends to a board belongs to a net
\* that had no trace on the board before the run.
C22_RouterRoutesOnlyUnroutedNets ==
  [][(Called("runAutoRouter") /\ last'.ret.success) =>
       LET before == boards[last'.args[1]]
           after == boards'[last'.args[1]]
       IN  \A i \in (Len(before.traces) + 1)..Len(after.traces) :
             after.traces[i].netId \notin TracedNets(before)]_vars

\* C23: an operation of the mock connector that returns a failure leaves
\* projects, boards, DRC results and routing results as they were.
C23_FailuresChangeNothing ==
  [][(\E op \in LiveOperations \ {"healthCheck"} : Called(op) /\ ~last'.ret.success)
       => store' = store]_vars

\* a move of a locked component was refused after the store had changed
C23_Witness ==
  /\ last.op = "moveComponent" /\ Code(last) = "VALIDATION_ERROR"
  /\ calls = 2 /\ boards[BoardId(1)] /= SeedBoard

\* the operations of the connector that only read
ReadingOperations ==
  { "healthCheck", "listProjects", "getProject", "getBoard", "listComponents",
    "getComponent", "listNets", "getNet", "getDRCViolations", "getRoutingStatus",
    "analyzeSignalIntegrity", "exportGerber", "exportBOM" }

\* a step of the service method: its call, or its going on after an await
ServiceStep(method) ==
  /\ svc'.method = method
  /\ \/ ServiceCalled
     \/ svc.method = method /\ ~CanStart /\ svc'.pc /= svc.pc

\* C24: the reading operations of the connector leave projects, boards, DRC
\* results and routing results unchanged; so do the steps of getBoardSummary,
\* analyzeComponentPlacement, analyzeRouting and exportManufacturingFiles;
\* the steps of getDesignHealthReport change only the stored DRC result of
\* the board.
C24_ReadersChangeNothing ==
  [][/\ (\E op \in ReadingOperations : Called(op)) => store' = store
     /\ (\E m \in {"getBoardSummary", "analyzeComponentPlacement", "analyzeRouting",
                    "exportManufacturingFiles"} : ServiceStep(m)) => store' = store
     /\ ServiceStep("getDesignHealthReport") =>
          /\ projects' = projects /\ boards' = boards
          /\ routingResults' = routingResults
          /\ \A b \in (DOMAIN drcResults \cup DOMAIN drcResults') \ {svc'.boardId} :
               /\ b \in DOMAIN drcResults /\ b \in DOMAIN drcResults'
               /\ drcResults'[b] = drcResults[b]]_vars

\* a health report has returned and left a DRC result of the routed board
C24_Witness ==
  /\ Returned("getDesignHealthReport") /\ Get(svc.ret).success
  /\ svc.boardId \in DOMAIN drcResults
  /\ svc.boardId \in DOMAIN routingResults

\* the step in which analyzeComponentPlacement returns its analysis
PlacementReturns ==
  /\ svc.method = "analyzeComponentPlacement" /\ svc.pc = "return"
  /\ svc'.pc = "done" /\ Get(svc'.ret).success

\* the board the analysis was made of, and the analysis
AnalysedBoard == boards[svc.boardId]

ByDesignator(c) == StartsWith(c.designator, "J") \/ StartsWith(c.designator, "Y")

\* the designators, in board order, of the components that have one of the
\* packages or a designator that starts with J or Y
CriticalBy(board, packages) ==
  LET listed == SelectSeq(board.components,
                          LAMBDA c : c.package \in packages \/ ByDesignator(c))
  IN  [i \in DOMAIN listed |-> listed[i].designator]

Suggestions == Get(svc'.ret).data.suggestions
OnLayer(board, layer) == Len(SelectSeq(board.components, LAMBDA c : c.layer = layer))
DensityOver60(board) ==
  ComponentArea(board.components) * 100 > 60 * board.width * board.height
BoolCount(b) == IF b THEN 1 ELSE 0

\* suggestions holds the density suggestion, the one-layer suggestion and the
\* critical-components suggestion exactly when the trigger given for each
\* holds, and nothing else
ExactlyTriggered(density, oneLayer, critical) ==
  /\ HighDensitySuggestion \in Range(Suggestions) <=> density
  /\ OneLayerSuggestion \in Range(Suggestions) <=> oneLayer
  /\ (\E s \in Range(Suggestions) : StartsWith(s, "Critical components identified: "))
       <=> critical
  /\ Len(Suggestions) = BoolCount(density) + BoolCount(oneLayer) + BoolCount(critical)

\* C26 as stated: the one-layer suggestion is returned exactly when the board
\* has components and all of them are on top or all of them are on bottom,
\* for any number of components.
C26_OneLayerForAnyNumber ==
  [][PlacementReturns =>
       ExactlyTriggered(
         DensityOver60(AnalysedBoard),
         /\ Len(AnalysedBoard.components) > 0
         /\ \/ OnLayer(AnalysedBoard, "top") = Len(AnalysedBoard.components)
            \/ OnLayer(AnalysedBoard, "bottom") = Len(AnalysedBoard.components),
         Get(svc'.ret).data.criticalComponents /= <<>>)]_vars

\* C26 amended: the density suggestion is returned exactly when the component
\* area is above 60% of the board area, the one-layer suggestion exactly when
\* no component is on bottom and more than 10 are on top, and the critical
\* components suggestion exactly when criticalComponents is not empty; the
\* suggestions hold nothing else.
C26_SuggestionsFollowTriggers ==
  [][PlacementReturns =>
       ExactlyTriggered(
         DensityOver60(AnalysedBoard),
         OnLayer(AnalysedBoard, "bottom") = 0 /\ OnLayer(AnalysedBoard, "top") > 10,
         Get(svc'.ret).data.criticalComponents /= <<>>)]_vars

\* an analysis that returned the one-layer suggestion for eleven components on
\* top
C26_Witness ==
  /\ svc.method = "analyzeComponentPlacement" /\ svc.pc = "done"
  /\ IsSome(svc.ret) /\ Get(svc.ret).success
  /\ OneLayerSuggestion \in Range(Get(svc.ret).data.suggestions)
  /\ Get(svc.ret).data.byLayer = [top |-> 11, bottom |-> 0]


\* ---- C27 ----
\* the index of the first draw read for the i-th analysed net
RECURSIVE DrawIndex(_, _)
DrawIndex(nets, i) == IF i = 1 THEN 1 ELSE DrawIndex(nets, i - 1) + DrawsOf(nets[i - 1])

HasTarget(net) == IsSome(net.impedanceTarget)
HasPartner(net) == IsSome(net.diffPair) /\ Get(net.diffPair) /= ""

\* the deviation, in thousandths of a percent, of target * (0.9 + r * 0.2)
\* from the target, for the draw r = d / 1000
DeviationOf(d) == 20 * d - 10000
\* r * 5 ps and -35 + r * 15 dB, in thousandths
SkewOf(d) == 5 * d
CrosstalkOf(d) == 15 * d - 35000

HasIssue(result, prefix) == \E s \in Range(result.issues) : StartsWith(s, prefix)

\* the result of one net agrees with the conditions computed from the draws
\* rand, the first of which is rand's k-th
IssuesMatch(net, result, rand, k) ==
  LET kSkew == k + BoolCount(HasTarget(net))
      kCrosstalk == kSkew + BoolCount(HasPartner(net))
      deviates == HasTarget(net) /\ Abs(DeviationOf(Draw(rand, k))) > 10000
      skewed == HasPartner(net) /\ SkewOf(Draw(rand, kSkew)) > 3000
      coupled == CrosstalkOf(Draw(rand, kCrosstalk)) > 0 - 25000
  IN  /\ result.netId = net.id
      /\ result.passed <=> result.issues = <<>>
      /\ HasIssue(result, "Impedance deviation ") <=> deviates
      /\ HasIssue(result, "Differential pair skew ") <=> skewed
      /\ HasIssue(result, "Crosstalk ") <=> coupled
      /\ Len(result.issues) = BoolCount(deviates) + BoolCount(skewed) + BoolCount(coupled)
      /\ ~HasTarget(net) => result.impedance = 500 /\ result.impedanceDeviation = None
      /\ ~HasPartner(net) => result.skew = None
      /\ HasPartner(net) => result.skew = Some(SkewOf(Draw(rand, kSkew)))

\* C27: for every net analysed by analyzeSignalIntegrity and every random
\* source that yields the result, passed is true exactly when issues is
\* empty, issues holds one item for each of: a target and a deviation above
\* 10%, a partner and a skew above 3 ps, a crosstalk above -25 dB; a net with
\* no target gets impedance 50 and a null deviation, a net with no partner a
\* null skew.
C27_IssuesFollowThresholds ==
  [][(Called("analyzeSignalIntegrity") /\ last'.ret.success) =>
       LET nets == NetsToAnalyze(boards[last'.args[1]], last'.args[2])
           results == last'.ret.data
       IN  /\ Len(results) = Len(nets)
           /\ \A rand \in SignalSources :
                results = AnalyzeNets(nets, rand, 1)
                  => \A i \in DOMAIN nets : IssuesMatch(nets[i], results[i], rand, DrawIndex(nets, i))]_vars

\* an analysis with a net that failed on skew and crosstalk, and a net with
\* no target and no partner that passed
C27_Witness ==
  /\ last.op = "analyzeSignalIntegrity" /\ last.ret.success
  /\ \E r \in Range(last.ret.data) :
       /\ ~r.passed /\ Len(r.issues) = 2
       /\ IsSome(r.skew) /\ Get(r.skew) > 3000
  /\ \E r \in Range(last.ret.data) :
       /\ r.passed /\ r.issues = <<>> /\ r.skew = None
       /\ r.impedance = 500 /\ r.impedanceDeviation = None


\* ---- C28 ----
RoutingReturns ==
  /\ svc.method = "analyzeRouting" /\ svc.pc = "return"
  /\ svc'.pc = "done" /\ Get(svc'.ret).success

\* C28: in a result of analyzeRouting a critical- or high-priority net of the
\* board is in criticalNets with routed = false exactly when its id is in
\* unroutedNets.
C28_UnroutedViewsAgree ==
  [][RoutingReturns =>
       LET analysis == Get(svc'.ret).data
       IN  \A n \in Range(boards[svc.boardId].nets) :
             n.priority \in {"critical", "high"}
               => ((\E c \in Range(analysis.criticalNets) : c.netId = n.id /\ ~c.routed)
                     <=> n.id \in Range(analysis.unroutedNets))]_vars


\* ---- C29 ----
\* C29: no two nets of a board have the same id, whatever nets createNet
\* added to it.
C29_NetIdsAreUnique ==
  \A b \in DOMAIN boards :
    \A i, j \in DOMAIN boards[b].nets :
      boards[b].nets[i].id = boards[b].nets[j].id => i = j


\* ---- C30 ----
\* C30: the name a project's boards summary records for a board is the
\* board's current name.
C30_SummaryHasCurrentName ==
  \A p \in DOMAIN projects :
    \A s \in Range(projects[p].boards) :
      s.id \in DOMAIN boards => s.name = boards[s.id].name

====
